---- MODULE Spec2Model ----
(***************************************************************************)
(* The orchestration engine of the fab data analysis agent: the LangGraph  *)
(* state machine of graph/graph_builder.py, the supervisor (orchestrator   *)
(* and deterministic planner) of agents/supervisor.py and the capability   *)
(* steps of agents/*.py, over the shared GraphState of core/models.py.     *)
(*                                                                         *)
(* Texts are modelled by what the code reads from them: the set of planner *)
(* keywords a lower-cased text contains, the tool-like tokens in order of  *)
(* appearance, and the digit groups of a date range.  A date is a sequence *)
(* of one-character strings.  A missing dict key / None is Absent for      *)
(* strings, <<>> for sequences and {} for collections.                     *)
(***************************************************************************)
EXTENDS Integers, Sequences, FiniteSets, TLC

Absent == "<absent>"

\* ------------------------------------------------------------------ bounds
\* Number of prompts one chat session receives.
MaxTurns == 3

\* Number of decision-service consultations whose response is unconstrained;
\* later consultations repeat the last response and external services fail.
MaxFreeDecisions == 2

\* ------------------------------------------------------- program constants
LOOP_BOUND == 20
RAW_LIMIT == 300
PLANNER_TOP_K == 6
\* the recursion limit the graph is invoked with
RECURSION_LIMIT == 60

Min(a, b) == IF a <= b THEN a ELSE b

\* ------------------------------------------------------------------- texts
Text(kws, tools, range) == [kws |-> kws, tools |-> tools, range |-> range]
EmptyText == Text({}, <<>>, <<>>)

\* str.upper() on the tool-like tokens the model uses
Upper(s) ==
  CASE s = "8950xr-p1" -> "8950XR-P1"
    [] s = "8950xr-p2" -> "8950XR-P2"
    [] s = "8950xr-p3" -> "8950XR-P3"
    [] s = "8950xr-p4" -> "8950XR-P4"
    [] s = "8950xr-p9" -> "8950XR-P9"
    [] s = "p2" -> "P2"
    [] OTHER -> s

ToolTags == {"8950XR-P1", "8950XR-P2", "8950XR-P3", "8950XR-P4"}

\* TOOL_RE = \b8950XR-P[1-4]\b, IGNORECASE: does one token match
TOOL_RE_match(tok) == Upper(tok) \in ToolTags

\* TOOL_RE.search(text): the first matching token, upper-cased by the caller
RECURSIVE FirstMatch(_)
FirstMatch(toks) ==
  IF toks = <<>> THEN Absent
  ELSE IF TOOL_RE_match(Head(toks)) THEN Head(toks)
  ELSE FirstMatch(Tail(toks))

TOOL_RE_search(text) == FirstMatch(text.tools)

\* TOOL_ID_RE = ^8950XR-P[1-4]$, IGNORECASE, on one stripped string
SanitizeMatches(t) == Upper(t) \in ToolTags

_sanitize_tool(tool) ==
  IF tool # Absent /\ SanitizeMatches(tool) THEN Upper(tool) ELSE Absent

\* ------------------------------------------------------------------- dates
Digits == {"0", "1", "2", "3", "4", "5", "6", "7", "8", "9"}

IsDigits(s, n) == Len(s) = n /\ \A i \in 1..Len(s) : s[i] \in Digits

\* the eight digits passed on as they are
ParseKeepsDigits(s) == IF ~IsDigits(s, 8) THEN <<>> ELSE s

_parse_yyyymmdd(s) ==
  IF ~IsDigits(s, 8) THEN <<>>
  ELSE SubSeq(s, 1, 4) \o <<"-">> \o SubSeq(s, 5, 6) \o <<"-">> \o SubSeq(s, 7, 8)

RangeSeparators == {"to", "-", "~"}

\* the (from, to) pair, or <<>> for None
_extract_date_range(user_query) ==
  LET r == user_query.range IN
  IF r = <<>> THEN <<>>
  ELSE IF ~(IsDigits(r[1], 8) /\ r[2] \in RangeSeparators /\ IsDigits(r[3], 8))
  THEN <<>>
  ELSE LET d1 == _parse_yyyymmdd(r[1])
           d2 == _parse_yyyymmdd(r[3])
       IN IF d1 = <<>> \/ d2 = <<>> THEN <<>> ELSE <<d1, d2>>

\* re.fullmatch(r"\d{4}-\d{2}-\d{2}", d)
IsIsoDate(d) ==
  /\ Len(d) = 10
  /\ \A i \in {1, 2, 3, 4, 6, 7, 9, 10} : d[i] \in Digits
  /\ d[5] = "-" /\ d[8] = "-"

\* ----------------------------------------------------------------- actions
NextAction(type, id, desc) ==
  [action_type |-> type, id |-> id, description |-> desc,
   tables |-> {}, tool |-> Absent, date_from |-> <<>>, date_to |-> <<>>,
   chart_type_hint |-> Absent, top_k |-> {}, target_dataset_id |-> <<>>,
   clarification_question |-> Absent]

None == NextAction(Absent, Absent, <<>>)

NoClarification == [id |-> Absent, question |-> Absent]

SqlAction(id, desc, tables, tool) ==
  [NextAction("sql_analysis", id, desc) EXCEPT !.tables = tables, !.tool = tool]

ToolQuestion ==
  "Which tool do you want me to check? (8950XR-P1, 8950XR-P2, 8950XR-P3, 8950XR-P4)"


\* --------------------------------------------------------- keyword tables
HealthKeywords == {"system health", "tool health", "how's the system", "health", "drift"}
ReasonKeywords ==
  {"why", "reason", "root cause", "calibration", "overdue", "wafer", "wc_", "stage",
   "subsystem"}
TrendKeywords == {"trend", "line chart", "plot", "graph", "折线", "趋势"}
SubsystemKeywords == {"subsystem", "sub-system", "stage health", "wafer center", "wc_points"}
RagIntentTokens ==
  {"install", "setup", "open", "launch", "start", "how to", "manual", "guide", "operate",
   "troubleshoot"}
DataishKeywords ==
  {"defect", "calibration", "wafer", "table", "count", "sum", "date", "recipe", "trend"}

\* any(k in ql for k in keywords)
AnyIn(keywords, text) == text.kws \cap keywords # {}

is_health(q) == AnyIn(HealthKeywords, q)
is_reason(q) == AnyIn(ReasonKeywords, q)
is_trend(q) == AnyIn(TrendKeywords, q)
is_subsystem(q) == AnyIn(SubsystemKeywords, q)
is_rag(q) == AnyIn(RagIntentTokens, q)
is_dataish(q) == AnyIn(DataishKeywords, q)

TABLE_KEYWORDS ==
  [kw \in {"defect", "drift", "recipe", "calibration", "wafer", "wc_", "stage"} |->
     CASE kw \in {"defect", "drift", "recipe"} -> "defects_daily"
       [] kw = "calibration" -> "calibrations"
       [] OTHER -> "wc_points"]

AllTables == {"defects_daily", "calibrations", "wc_points"}

\* the sorted list of distinct tables, as a set
_infer_tables(user_query, schema) ==
  LET seen == {TABLE_KEYWORDS[kw] : kw \in (DOMAIN TABLE_KEYWORDS) \cap user_query.kws}
  IN IF seen # {} THEN seen ELSE schema

\* ------------------------------------------------------ identifier memory
ClarificationKeys == <<"tool", "tool_id">>

RECURSIVE FromClarifications(_, _)
FromClarifications(keys, clarifications) ==
  IF keys = <<>> THEN Absent
  ELSE LET k == Head(keys)
           m == IF k \in DOMAIN clarifications
                THEN TOOL_RE_search(clarifications[k]) ELSE Absent
       IN IF m # Absent THEN Upper(m)
          ELSE FromClarifications(Tail(keys), clarifications)

RECURSIVE FromHistory(_)
\* scans reversed(chat_history): the newest message first
FromHistory(history) ==
  IF history = <<>> THEN Absent
  ELSE LET m == TOOL_RE_search(history[Len(history)].content)
       IN IF m # Absent THEN Upper(m)
          ELSE FromHistory(SubSeq(history, 1, Len(history) - 1))

\* the remembered identifier consulted before the current query
ExtractToolMemoryFirst(user_query, clarifications, last, history) ==
  LET m1 == TOOL_RE_search(user_query)
      m2 == FromClarifications(ClarificationKeys, clarifications)
      m3 == IF last # Absent /\ TOOL_RE_match(last) THEN Upper(last) ELSE Absent
  IN IF m3 # Absent THEN m3
     ELSE IF m1 # Absent THEN Upper(m1)
     ELSE IF m2 # Absent THEN m2
     ELSE FromHistory(history)

_extract_tool(user_query, clarifications, last, history) ==
  LET m1 == TOOL_RE_search(user_query)
      m2 == FromClarifications(ClarificationKeys, clarifications)
      m3 == IF last # Absent /\ TOOL_RE_match(last) THEN Upper(last) ELSE Absent
  IN IF m1 # Absent THEN Upper(m1)
     ELSE IF m2 # Absent THEN m2
     ELSE IF m3 # Absent THEN m3
     ELSE FromHistory(history)

\* a result with an error counted as well
HasAnyStep(results, step_id) ==
  \E i \in 1..Len(results) : results[i].step_id = step_id

_has_successful_step(results, step_id) ==
  \E i \in 1..Len(results) : results[i].step_id = step_id /\ results[i].error = Absent

\* ---------------------------------------------------------- step results
StepResult(id, type, summary) ==
  [step_id |-> id, step_type |-> type, summary |-> summary, error |-> Absent,
   dataset_id |-> <<>>, used_tables |-> {}, reasoning |-> Absent, raw_llm |-> Absent,
   has_rows |-> FALSE, plots |-> Absent]

\* dict.get(key, default) on an action's id
GetId(action, default) == IF action.id = Absent THEN default ELSE action.id

NoStep == StepResult(Absent, Absent, Absent)

RECURSIVE _find_step(_, _)
\* the first result with this step_id, or NoStep for None
_find_step(steps, step_id) ==
  IF steps = <<>> THEN NoStep
  ELSE IF Head(steps).step_id = step_id THEN Head(steps)
  ELSE _find_step(Tail(steps), step_id)

EvidenceKeys == {"defect_drift_weekly", "calibration_overdue", "stage_wc_weekly"}

\* the evidence entries of the payload handed to the generative service
Payload(findings) == [k \in EvidenceKeys |-> _find_step(findings, k)]

NoPayload == [k \in EvidenceKeys |-> NoStep]

\* ------------------------------------------------------------ invocations
Queries ==
  { Text({"health"}, <<"8950XR-P1">>, <<>>),
    Text({"health"}, <<>>, <<>>),
    Text({"health", "why", "stage"}, <<"8950xr-p2">>, <<>>),
    Text({"health", "subsystem"}, <<"8950XR-P2">>, <<>>),
    Text({"trend"}, <<"8950XR-P3">>,
         << <<"2","0","2","4","0","1","0","1">>, "to", <<"2","0","2","4","0","1","0","7">> >>),
    Text({"trend"}, <<"P3">>,
         << <<"2","0","2","4","0","1","0","1">>, "to", <<"2","0","2","4","0","1","0","7">> >>),
    Text({"how to", "manual"}, <<>>, <<>>),
    Text({"defect", "count"}, <<"P2">>, <<>>),
    Text({}, <<>>, <<>>) }

NoAnswers == <<>>
ClarificationInputs ==
  { NoAnswers,
    [k \in {"tool"} |-> Text({}, <<"8950xr-p4">>, <<>>)],
    [k \in {"tool"} |-> Text({}, <<"P4">>, <<>>)] }

VARIABLES
  pc,                    \* the graph node about to run, "END", or "raised"
  user_query, clarification_answers, last_tool, chat_history, database_schema,
  next_action, action_queue, step_results, data_artifacts,
  pending_clarification, final_answer, loop_count, subsystem_mode,
  llm_calls,             \* decision-service consultations of this invocation
  planner_calls,         \* activations that reached the deterministic planner
  last_response,         \* the decision service's last response
  uuid_count,            \* dataset ids minted so far
  executed,              \* the queries handed to the query service, in order
  expert_payload,        \* evidence last sent to the interpretation service
  dispatched,            \* the actions the router has dispatched, in order
  resolved,              \* the identifier _extract_tool last returned
  session,               \* st.session_state of the chat front end
  calibrations,          \* rows the calibration_overdue query returns for the tool
  wc_points,             \* rows the stage_wc_weekly query returns for the tool
  runtime_cache,         \* the result files written so far, by location
  weekly,                \* defects_daily summed per (tool, recipe): this and last week
  drift_rows,            \* rows the defect_drift_weekly query returns
  db_file,               \* the file at db_path: whether it exists, and its tables
  docs_files,            \* the files of the directory docs_path
  markdown_knowledge, table_markdown_index

vars ==
  <<pc, user_query, clarification_answers, last_tool, chat_history, database_schema,
    next_action, action_queue, step_results, data_artifacts, pending_clarification,
    final_answer, loop_count, subsystem_mode, llm_calls, planner_calls, last_response,
    uuid_count, executed, expert_payload, dispatched, resolved, session, calibrations, wc_points,
    runtime_cache, weekly, drift_rows, db_file, docs_files, markdown_knowledge,
    table_markdown_index>>

\* the database content, the files and the loaded documentation
stores ==
  <<calibrations, wc_points, runtime_cache, weekly, drift_rows, db_file, docs_files,
    markdown_knowledge, table_markdown_index>>

\* what an invocation is given
inputs == <<user_query, clarification_answers, chat_history, database_schema, stores>>

\* the file at db_path: it may be missing, or present without being a database
DbFile(exists, valid, tables) == [exists |-> exists, valid |-> valid, tables |-> tables]

\* a text is the sequence of its lines, the pieces between its newlines; the empty
\* string is one empty line
EmptyString == <<"">>

\* the stores as far as the control flow alone is concerned: no rows, no documents
NoStores ==
  /\ calibrations = <<>>
  /\ wc_points = <<>>
  /\ runtime_cache = <<>>
  /\ weekly = <<>>
  /\ drift_rows = <<>>
  /\ db_file = DbFile(TRUE, TRUE, AllTables)
  /\ docs_files = {}
  /\ markdown_knowledge = EmptyString
  /\ table_markdown_index = <<>>

NoResponse == [kind |-> Absent, text |-> Absent, len |-> 0, action |-> None]

\* the session state as the front end initialises it; last_user_query "" is <<>>,
\* a remembered question q is <<q>>; prompt is the last user message, turn counts
\* the prompts received, answering is the id of the clarification the last
\* prompt answered (Absent for a new question)
NewSession ==
  [pending_clarification |-> NoClarification, clarification_answers |-> NoAnswers,
   last_user_query |-> <<>>, prompt |-> EmptyText, turn |-> 0, answering |-> Absent]

\* _init_app_and_state, then the graph's entry point
Init ==
  /\ pc = "supervisor"
  /\ user_query \in Queries
  /\ clarification_answers \in ClarificationInputs
  /\ last_tool = Absent
  /\ chat_history = <<>>
  /\ database_schema = AllTables
  /\ next_action = None
  /\ action_queue = <<>>
  /\ step_results = <<>>
  /\ data_artifacts = <<>>
  /\ pending_clarification = NoClarification
  /\ final_answer = Absent
  /\ loop_count = 0
  /\ subsystem_mode = FALSE
  /\ llm_calls = 0
  /\ planner_calls = 0
  /\ last_response = NoResponse
  /\ uuid_count = 0
  /\ executed = <<>>
  /\ expert_payload = NoPayload
  /\ dispatched = <<>>
  /\ resolved = Absent
  /\ session = NewSession
  /\ NoStores


\* ------------------------------------------------------------ the graph
\* the router without its ask_user branch
RouteWithoutAskUser(action) ==
  CASE action.action_type \in {"sql_analysis", "python_analysis"} -> "data_analyst"
    [] action.action_type = "domain_explain" -> "domain_expert"
    [] action.action_type = "rag_qa" -> "rag_qa"
    [] action.action_type = "visualize" -> "visualizer"
    [] OTHER -> "aggregator"

\* an action of a type the router does not know sent to the SQL step
RouteUnknownToAnalyst(action) ==
  CASE action.action_type \in {"sql_analysis", "python_analysis"} -> "data_analyst"
    [] action.action_type = "domain_explain" -> "domain_expert"
    [] action.action_type = "rag_qa" -> "rag_qa"
    [] action.action_type = "visualize" -> "visualizer"
    [] action.action_type = "ask_user" -> "ask_user"
    [] action.action_type = "finish" -> "aggregator"
    [] OTHER -> "data_analyst"

\* route_supervisor and the conditional edges out of "supervisor"
route_supervisor(action) ==
  CASE action.action_type \in {"sql_analysis", "python_analysis"} -> "data_analyst"
    [] action.action_type = "domain_explain" -> "domain_expert"
    [] action.action_type = "rag_qa" -> "rag_qa"
    [] action.action_type = "visualize" -> "visualizer"
    [] action.action_type = "ask_user" -> "ask_user"
    [] OTHER -> "aggregator"

\* the edges back from the capability steps
AfterStep == "supervisor"

\* ------------------------------------------------------- the orchestrator
\* the guard firing one activation late / one activation early
LoopGuardLate(count) == count > LOOP_BOUND + 1
LoopGuardEarly(count) == count >= LOOP_BOUND

\* the guard firing only after twice as many activations
LoopGuardDouble(count) == count > 2 * LOOP_BOUND

LoopGuard(count) == count > LOOP_BOUND

FinishAction(desc) == NextAction("finish", "finish", <<desc>>)

\* "subsystem_mode" is written into the state dict but is not a key of GraphState,
\* the schema the graph is built from: whether the value reaches the next node is
\* up to the graph runtime, which may keep the key or drop it (absent reads False).
UndeclaredKey(value) == {value, FALSE}

\* what every return path of supervisor_node._node writes
Emit(action, queue, clarification, submode, tool) ==
  /\ loop_count' = loop_count + 1
  /\ next_action' = action
  /\ action_queue' = queue
  /\ pending_clarification' = clarification
  /\ subsystem_mode' \in UndeclaredKey(submode)
  /\ last_tool' = tool
  /\ pc' = route_supervisor(action)
  /\ dispatched' = Append(dispatched, action)
  /\ UNCHANGED <<inputs, step_results, data_artifacts, final_answer, uuid_count, executed,
                 expert_payload, resolved, session>>

SupervisorLoopGuard ==
  /\ pc = "supervisor"
  /\ LoopGuard(loop_count + 1)
  /\ Emit(NextAction("finish", "auto_finish", <<"Loop guard triggered; finalize.">>),
          action_queue, NoClarification, subsystem_mode, last_tool)
  /\ UNCHANGED <<llm_calls, planner_calls, last_response>>

\* the queue popped but the head not made the pending action
SupervisorQueueDropsHead ==
  /\ pc = "supervisor"
  /\ ~LoopGuard(loop_count + 1)
  /\ action_queue # <<>>
  /\ Emit(None, Tail(action_queue), NoClarification, subsystem_mode, last_tool)
  /\ UNCHANGED <<llm_calls, planner_calls, last_response>>

\* the queue consumed from the back
SupervisorQueuePopsLast ==
  /\ pc = "supervisor"
  /\ ~LoopGuard(loop_count + 1)
  /\ action_queue # <<>>
  /\ Emit(action_queue[Len(action_queue)], SubSeq(action_queue, 1, Len(action_queue) - 1),
          NoClarification, subsystem_mode, last_tool)
  /\ UNCHANGED <<llm_calls, planner_calls, last_response>>

\* 0) pop the deterministic queue
SupervisorQueue ==
  /\ pc = "supervisor"
  /\ ~LoopGuard(loop_count + 1)
  /\ action_queue # <<>>
  /\ Emit(Head(action_queue), Tail(action_queue), NoClarification, subsystem_mode,
          last_tool)
  /\ UNCHANGED <<llm_calls, planner_calls, last_response>>

\* the check for an earlier successful ad-hoc result left out
AdHocNeverDone == FALSE

AdHocDone == _has_successful_step(step_results, "ad_hoc_sql")

SupervisorAdHocDone ==
  /\ pc = "supervisor"
  /\ ~LoopGuard(loop_count + 1)
  /\ action_queue = <<>>
  /\ AdHocDone
  /\ Emit(FinishAction("Summarize existing SQL result."), action_queue, NoClarification,
          subsystem_mode, last_tool)
  /\ UNCHANGED <<llm_calls, planner_calls, last_response>>

\* the activation reaches the planner rules
PlannerReached ==
  /\ pc = "supervisor"
  /\ ~LoopGuard(loop_count + 1)
  /\ action_queue = <<>>
  /\ ~AdHocDone

ResolvedTool == _extract_tool(user_query, clarification_answers, last_tool, chat_history)

AskToolAction ==
  [NextAction("ask_user", "tool", <<"Need tool to answer system health.">>)
     EXCEPT !.clarification_question = ToolQuestion]

SubsystemPlan(tool) ==
  << SqlAction("calibration_overdue",
               <<"Check overdue calibrations (subsystem health).">>, {"calibrations"}, tool),
     SqlAction("stage_wc_weekly",
               <<"Summarize wafer-center abnormal ratio for Stage subsystem.">>,
               {"wc_points"}, tool),
     NextAction("domain_explain", "domain_explain",
                <<"Explain subsystem health using calibration and wafer-center only.">>),
     FinishAction("Wrap up subsystem health answer.") >>

SupportingSteps(tool) ==
  << SqlAction("calibration_overdue",
               <<"Check overdue calibrations (supporting evidence only).">>,
               {"calibrations"}, tool),
     SqlAction("stage_wc_weekly",
               <<"Summarize wafer-center abnormal ratio for this week (supporting evidence only).">>,
               {"wc_points"}, tool) >>

\* the supporting steps queued whether or not a reason was asked for
HealthPlanAlwaysSupporting(tool, reason) ==
  << SqlAction("defect_drift_weekly",
               <<"Compute weekly defect sums and drift classification (defects_daily only).">>,
               {"defects_daily"}, tool) >>
  \o SupportingSteps(tool)
  \o << NextAction("domain_explain", "domain_explain",
                   <<"Explain findings and format the answer per rules (verdict + evidence table).">>),
        FinishAction("Summarize and return final answer.") >>

\* the plan without its closing finish
HealthPlanWithoutFinish(tool, reason) ==
  << SqlAction("defect_drift_weekly",
               <<"Compute weekly defect sums and drift classification (defects_daily only).">>,
               {"defects_daily"}, tool) >>
  \o (IF reason THEN SupportingSteps(tool) ELSE <<>>)
  \o << NextAction("domain_explain", "domain_explain",
                   <<"Explain findings and format the answer per rules (verdict + evidence table).">>) >>

HealthPlan(tool, reason) ==
  << SqlAction("defect_drift_weekly",
               <<"Compute weekly defect sums and drift classification (defects_daily only).">>,
               {"defects_daily"}, tool) >>
  \o (IF reason THEN SupportingSteps(tool) ELSE <<>>)
  \o << NextAction("domain_explain", "domain_explain",
                   <<"Explain findings and format the answer per rules (verdict + evidence table).">>),
        FinishAction("Summarize and return final answer.") >>

TrendPlan(tool, dfrom, dto) ==
  << [SqlAction("defect_trend_range",
                <<"Fetch daily defect totals in date range for plotting defect_rate.">>,
                {"defects_daily"}, tool) EXCEPT !.date_from = dfrom, !.date_to = dto],
     [NextAction("visualize", "visualize",
                 <<"Create a line chart for defect_rate over time.">>)
        EXCEPT !.chart_type_hint = "line"],
     FinishAction("Finalize with plot and short summary.") >>

\* the document search queued without the finish after it
RagPlanWithoutFinish ==
  << [NextAction("rag_qa", "rag_manual", <<"Search manuals for instructions.">>)
        EXCEPT !.top_k = {PLANNER_TOP_K}] >>

RagPlan ==
  << [NextAction("rag_qa", "rag_manual", <<"Search manuals for instructions.">>)
        EXCEPT !.top_k = {PLANNER_TOP_K}],
     FinishAction("Summarize RAG findings.") >>

Planned == UNCHANGED <<llm_calls, last_response>> /\ planner_calls' = planner_calls + 1

\* health without a tool answered for a default tool instead of asking
SupervisorAskToolGuesses ==
  /\ PlannerReached
  /\ is_health(user_query)
  /\ ResolvedTool = Absent
  /\ LET queue == HealthPlan("8950XR-P1", is_reason(user_query))
     IN Emit(Head(queue), Tail(queue), NoClarification, FALSE, last_tool)
  /\ Planned

\* 1) health without a tool: ask which one
SupervisorAskTool ==
  /\ PlannerReached
  /\ is_health(user_query)
  /\ ResolvedTool = Absent
  /\ Emit(AskToolAction, action_queue,
          [id |-> "tool", question |-> AskToolAction.clarification_question],
          FALSE, last_tool)
  /\ Planned

SupervisorSubsystemPlan ==
  /\ PlannerReached
  /\ is_health(user_query)
  /\ ResolvedTool # Absent
  /\ is_subsystem(user_query)
  /\ LET queue == SubsystemPlan(ResolvedTool)
     IN Emit(Head(queue), Tail(queue), NoClarification, TRUE, ResolvedTool)
  /\ Planned

SupervisorHealthPlan ==
  /\ PlannerReached
  /\ is_health(user_query)
  /\ ResolvedTool # Absent
  /\ ~is_subsystem(user_query)
  /\ LET queue == HealthPlan(ResolvedTool, is_reason(user_query))
     IN Emit(Head(queue), Tail(queue), NoClarification, FALSE, ResolvedTool)
  /\ Planned

\* 2) trend chart over an explicit date range
TrendMatches ==
  /\ is_trend(user_query)
  /\ ResolvedTool # Absent
  /\ _extract_date_range(user_query) # <<>>

\* the trend rule tried before the health rule
SupervisorTrendPlanFirst ==
  /\ PlannerReached
  /\ TrendMatches
  /\ LET dr == _extract_date_range(user_query)
         queue == TrendPlan(ResolvedTool, dr[1], dr[2])
     IN Emit(Head(queue), Tail(queue), NoClarification, subsystem_mode, ResolvedTool)
  /\ Planned

SupervisorTrendPlan ==
  /\ PlannerReached
  /\ ~is_health(user_query)
  /\ TrendMatches
  /\ LET dr == _extract_date_range(user_query)
         queue == TrendPlan(ResolvedTool, dr[1], dr[2])
     IN Emit(Head(queue), Tail(queue), NoClarification, subsystem_mode, ResolvedTool)
  /\ Planned

\* 2b) manual / how-to questions
SupervisorRagPlan ==
  /\ PlannerReached
  /\ ~is_health(user_query)
  /\ ~TrendMatches
  /\ is_rag(user_query)
  /\ Emit(Head(RagPlan), Tail(RagPlan), NoClarification, subsystem_mode, last_tool)
  /\ Planned

\* 3) generic ad-hoc data lookup
AdHocMatches ==
  is_dataish(user_query) /\ _infer_tables(user_query, database_schema) # {}

SupervisorAdHoc ==
  /\ PlannerReached
  /\ ~is_health(user_query)
  /\ ~TrendMatches
  /\ ~is_rag(user_query)
  /\ AdHocMatches
  /\ Emit(SqlAction("ad_hoc_sql", <<"Ad-hoc SQL lookup based on user question.">>,
                    _infer_tables(user_query, database_schema), ResolvedTool),
          <<>>, NoClarification, subsystem_mode, last_tool)
  /\ Planned


\* 4) the decision service -------------------------------------------------
Response(kind, text, len, action) ==
  [kind |-> kind, text |-> text, len |-> len, action |-> action]

Proposal(action) == Response("json_action", "action", 0, action)

IsoDate == <<"2","0","2","4","-","0","1","-","0","7">>
RawDate == <<"2","0","2","4","0","1","0","1">>

\* what llm.invoke may return: free text, JSON without an action_type, or an
\* action of any type with the fields of NextAction
DecisionResponses ==
  { Response("not_json", "I think we are done", 19, None),
    Response("not_json", "long prose", 400, None),
    Response("json_no_action_type", "{\"sql\": \"SELECT 1\"}", 19, None),
    Proposal(FinishAction("done")),
    Proposal([NextAction("ask_user", "recipe", <<"need recipe">>)
                EXCEPT !.clarification_question = "Which recipe?"]),
    Proposal(NextAction("ask_user", Absent, <<>>)),
    Proposal(NextAction("rag_qa", Absent, <<>>)),
    Proposal(NextAction("python_analysis", "py1", <<"compute stats">>)),
    Proposal(SqlAction("q1", <<"list calibrations">>, {"calibrations"}, Absent)),
    Proposal([SqlAction("defect_trend_range", <<"trend">>, {"defects_daily"}, "8950XR-P1")
                EXCEPT !.date_from = RawDate, !.date_to = IsoDate]),
    Proposal(SqlAction("defect_drift_weekly", <<"drift">>, {"defects_daily"}, "8950xr-p9")),
    Proposal(SqlAction("calibration_overdue", <<"overdue">>, {"calibrations"}, "8950xr-p2")),
    Proposal(NextAction("domain_explain", Absent, <<>>)),
    Proposal([NextAction("visualize", "viz", <<"plot it">>)
                EXCEPT !.target_dataset_id = <<"query_result", 2>>]),
    Proposal(NextAction("summarize", "s1", <<"wrap up">>)) }

\* json.loads(content) and the fallbacks around it
ParseDecision(r) ==
  CASE r.kind = "not_json" ->
         NextAction("finish", "finish",
                    <<"Could not parse action. Raw: ", r.text, Min(r.len, RAW_LIMIT)>>)
    [] r.kind = "json_action" -> r.action
    [] OTHER -> FinishAction("Provide final answer.")

\* pending_clarification cleared whatever the action is
ClarificationAlwaysCleared(action) == NoClarification

ClarificationOf(action) ==
  IF action.action_type = "ask_user"
  THEN [id |-> GetId(action, "clarify"),
        question |-> IF action.clarification_question = Absent
                     THEN "Please provide more detail."
                     ELSE action.clarification_question]
  ELSE NoClarification

SupervisorDecision ==
  /\ PlannerReached
  /\ ~is_health(user_query)
  /\ ~TrendMatches
  /\ ~is_rag(user_query)
  /\ ~AdHocMatches
  /\ \E r \in DecisionResponses :
       /\ llm_calls < MaxFreeDecisions \/ r = last_response
       /\ last_response' = r
       /\ Emit(ParseDecision(r), action_queue, ClarificationOf(ParseDecision(r)),
               subsystem_mode, last_tool)
  /\ llm_calls' = llm_calls + 1
  /\ planner_calls' = planner_calls + 1

\* ------------------------------------------------------ capability steps
\* outcomes of an external service (query execution, sandbox)
ServiceOutcomes == IF llm_calls <= MaxFreeDecisions THEN {"ok", "error"} ELSE {"error"}

\* one dataset id handed out again and again
DatasetIdReused(n) == <<"query_result", 1>>

DatasetId(n) == <<"query_result", n>>

\* what no node but the supervisor writes
NodeFrame ==
  UNCHANGED <<inputs, last_tool, action_queue, pending_clarification, loop_count,
              subsystem_mode, llm_calls, planner_calls, last_response, dispatched,
              resolved, session>>

StepFrame == NodeFrame /\ UNCHANGED final_answer

Templates ==
  {"defect_drift_weekly", "calibration_overdue", "stage_wc_weekly", "defect_trend_range"}

\* _sql_state_update: the step result and the artifacts after one query
SqlResult(action, reasoning, outcome, id) ==
  LET base == [StepResult(GetId(action, "sql"), "sql_analysis", reasoning)
                 EXCEPT !.used_tables = action.tables]
  IN IF outcome = "ok"
     THEN [base EXCEPT !.dataset_id = id, !.has_rows = TRUE]
     ELSE [base EXCEPT !.error = "sql error", !.reasoning = "SQL attempted"]

SqlArtifacts(artifacts, outcome, id) ==
  IF outcome = "ok" THEN (id :> [csv_path |-> id]) @@ artifacts ELSE artifacts

\* a query handed to execute_sqlite_query: the template it was built from and the
\* values put into its text
Sql(template, tool, date_from, date_to) ==
  [template |-> template, tool |-> tool, date_from |-> date_from, date_to |-> date_to]

\* the pending action left in place after the append
SqlStateUpdateKeepsAction(action, sql, reasoning, outcome, after) ==
  /\ step_results' =
       Append(step_results, SqlResult(action, reasoning, outcome, DatasetId(uuid_count + 1)))
  /\ data_artifacts' = SqlArtifacts(data_artifacts, outcome, DatasetId(uuid_count + 1))
  /\ uuid_count' = IF outcome = "ok" THEN uuid_count + 1 ELSE uuid_count
  /\ executed' = Append(executed, sql)
  /\ UNCHANGED next_action
  /\ pc' = after
  /\ UNCHANGED expert_payload
  /\ StepFrame

_sql_state_update(action, sql, reasoning, outcome, after) ==
  /\ step_results' =
       Append(step_results, SqlResult(action, reasoning, outcome, DatasetId(uuid_count + 1)))
  /\ data_artifacts' = SqlArtifacts(data_artifacts, outcome, DatasetId(uuid_count + 1))
  /\ uuid_count' = IF outcome = "ok" THEN uuid_count + 1 ELSE uuid_count
  /\ executed' = Append(executed, sql)
  /\ next_action' = None
  /\ pc' = after
  /\ UNCHANGED expert_payload
  /\ StepFrame

IsTemplate(action) == action.action_type = "sql_analysis" /\ action.id \in Templates

\* a deterministic template without a valid tool
DataAnalystInvalidTool ==
  /\ pc = "data_analyst"
  /\ IsTemplate(next_action)
  /\ _sanitize_tool(next_action.tool) = Absent
  /\ step_results' =
       Append(step_results,
              [StepResult(next_action.id, "sql_analysis",
                          "Missing or invalid tool id for deterministic analysis.")
                 EXCEPT !.error = "Tool must be one of: 8950XR-P1/P2/P3/P4"])
  /\ next_action' = None
  /\ pc' = AfterStep
  /\ UNCHANGED <<data_artifacts, uuid_count, executed, expert_payload>>
  /\ StepFrame

DatesValid(action) == IsIsoDate(action.date_from) /\ IsIsoDate(action.date_to)

TemplateReasoning(id) ==
  CASE id = "defect_drift_weekly" ->
         "Computed weekly defect sums and drift labels per rules (defects_daily only)."
    [] id = "calibration_overdue" ->
         "Checked calibration due dates (supporting evidence only)."
    [] id = "stage_wc_weekly" ->
         "Summarized wafer-center abnormal ratio for this week (supporting evidence only)."
    [] OTHER -> "Fetched daily defect totals for plotting."

\* the tool put into the query text as the action names it, unsanitized
TemplateSqlRawTool(action) ==
  Sql(action.id, action.tool,
      IF action.id = "defect_trend_range" THEN action.date_from ELSE <<>>,
      IF action.id = "defect_trend_range" THEN action.date_to ELSE <<>>)

\* _sql_defect_drift_weekly(tool), _sql_calibration_overdue(tool),
\* _sql_stage_wc_weekly(tool), _sql_defect_trend_range(tool, dfrom, dto)
TemplateSql(action) ==
  Sql(action.id, _sanitize_tool(action.tool),
      IF action.id = "defect_trend_range" THEN action.date_from ELSE <<>>,
      IF action.id = "defect_trend_range" THEN action.date_to ELSE <<>>)

DataAnalystTemplate ==
  /\ pc = "data_analyst"
  /\ IsTemplate(next_action)
  /\ _sanitize_tool(next_action.tool) # Absent
  /\ next_action.id = "defect_trend_range" => DatesValid(next_action)
  /\ \E outcome \in ServiceOutcomes :
       _sql_state_update(next_action, TemplateSql(next_action),
                         TemplateReasoning(next_action.id), outcome, AfterStep)

\* defect_trend_range with a malformed date: runs "SELECT 1 AS error;"
DataAnalystBadDates ==
  /\ pc = "data_analyst"
  /\ IsTemplate(next_action)
  /\ _sanitize_tool(next_action.tool) # Absent
  /\ next_action.id = "defect_trend_range"
  /\ ~DatesValid(next_action)
  /\ \E outcome \in ServiceOutcomes :
       _sql_state_update(next_action, Sql("SELECT 1 AS error;", Absent, <<>>, <<>>),
                         "Invalid date range format; expected YYYY-MM-DD.", outcome,
                         AfterStep)

\* generic SQL: the query text comes from the model, then raw_llm is attached
DataAnalystGenericSql ==
  /\ pc = "data_analyst"
  /\ next_action.action_type = "sql_analysis"
  /\ ~IsTemplate(next_action)
  /\ \E outcome \in ServiceOutcomes :
       _sql_state_update(next_action, Sql("generated", Absent, <<>>, <<>>),
                         "SQL generated based on schema.", outcome, "data_analyst_raw_llm")

\* _python_state_update
DataAnalystPython ==
  /\ pc = "data_analyst"
  /\ next_action.action_type = "python_analysis"
  /\ \E outcome \in ServiceOutcomes :
       step_results' =
         Append(step_results,
                LET base == StepResult(GetId(next_action, "python"), "python_analysis",
                                       "Python analysis generated.")
                IN IF outcome = "ok" THEN [base EXCEPT !.plots = "plot_paths"]
                   ELSE [base EXCEPT !.error = "Python execution failed."])
  /\ next_action' = None
  /\ pc' = "data_analyst_raw_llm"
  /\ UNCHANGED <<data_artifacts, uuid_count, executed, expert_payload>>
  /\ StepFrame

\* updated_state["step_results"][-1]["raw_llm"] = raw_llm, then return
AttachRawLlm(results) ==
  IF results = <<>> THEN results
  ELSE [results EXCEPT ![Len(results)].raw_llm = "raw_llm"]

DataAnalystAttachRawLlm ==
  /\ pc = "data_analyst_raw_llm"
  /\ step_results' = AttachRawLlm(step_results)
  /\ pc' = AfterStep
  /\ UNCHANGED <<next_action, data_artifacts, uuid_count, executed, expert_payload>>
  /\ StepFrame


\* the interpretation step ---------------------------------------------
\* subsystem mode: computed from the calibration and wafer-center results alone
DomainExpertSubsystem ==
  /\ pc = "domain_expert"
  /\ subsystem_mode
  /\ step_results' =
       Append(step_results,
              StepResult(GetId(next_action, "domain_explain"), "domain_explain",
                         "subsystem health table"))
  /\ next_action' = None
  /\ pc' = AfterStep
  /\ UNCHANGED <<data_artifacts, uuid_count, executed, expert_payload>>
  /\ StepFrame

\* general mode: the payload goes to the generative service
DomainExpertGeneral ==
  /\ pc = "domain_expert"
  /\ ~subsystem_mode
  /\ expert_payload' = Payload(step_results)
  /\ step_results' =
       Append(step_results,
              [StepResult(GetId(next_action, "domain_explain"), "domain_explain",
                          "interpretation")
                 EXCEPT !.raw_llm = "interpretation"])
  /\ next_action' = None
  /\ pc' = AfterStep
  /\ UNCHANGED <<data_artifacts, uuid_count, executed>>
  /\ StepFrame

\* the visualization step ------------------------------------------------
\* action.get("target_dataset_id") or next(iter(datasets.keys()), None)
TargetDataset(action, artifacts) ==
  IF action.target_dataset_id # <<>> THEN action.target_dataset_id
  ELSE IF DOMAIN artifacts = {} THEN <<>>
  ELSE DatasetId(CHOOSE n \in 1..uuid_count :
                   /\ DatasetId(n) \in DOMAIN artifacts
                   /\ \A m \in 1..(n - 1) : DatasetId(m) \notin DOMAIN artifacts)

\* any registered dataset taken for the target
HasAnyDataset(action, artifacts) == DOMAIN artifacts # {}

HasTarget(action, artifacts) == TargetDataset(action, artifacts) \in DOMAIN artifacts

VisualizerNoDataset ==
  /\ pc = "visualizer"
  /\ ~HasTarget(next_action, data_artifacts)
  /\ step_results' =
       Append(step_results,
              [StepResult(GetId(next_action, "visualize"), "visualize", "visualization")
                 EXCEPT !.error = "No dataset available for visualization."])
  /\ next_action' = None
  /\ pc' = AfterStep
  /\ UNCHANGED <<data_artifacts, uuid_count, executed, expert_payload>>
  /\ StepFrame

VisualizerPlot ==
  /\ pc = "visualizer"
  /\ HasTarget(next_action, data_artifacts)
  /\ \E outcome \in ServiceOutcomes :
       step_results' =
         Append(step_results,
                LET base == [StepResult(GetId(next_action, "visualize"), "visualize",
                                        "Generated plot code.")
                               EXCEPT !.raw_llm = "raw_llm"]
                IN IF outcome = "ok" THEN [base EXCEPT !.plots = "plot_paths"]
                   ELSE [base EXCEPT !.error = "Visualization failed."])
  /\ next_action' = None
  /\ pc' = AfterStep
  /\ UNCHANGED <<data_artifacts, uuid_count, executed, expert_payload>>
  /\ StepFrame

\* the document-search step ----------------------------------------------
RagQa ==
  /\ pc = "rag_qa"
  /\ step_results' =
       Append(step_results,
              StepResult(GetId(next_action, "rag_qa"), "rag_qa",
                         "Retrieved manual chunks for the question."))
  /\ next_action' = FinishAction("Aggregate RAG results for the user.")
  /\ pc' = AfterStep
  /\ UNCHANGED <<data_artifacts, uuid_count, executed, expert_payload>>
  /\ StepFrame

\* rag_tool.search raises: nothing in the step catches it
RagQaRaises ==
  /\ pc = "rag_qa"
  /\ pc' = "raised"
  /\ UNCHANGED <<next_action, step_results, data_artifacts, uuid_count, executed, expert_payload>>
  /\ StepFrame

\* the terminal nodes ------------------------------------------------------
AggregatorContents == {"answer", ""}

Aggregator ==
  /\ pc = "aggregator"
  /\ final_answer' \in AggregatorContents
  /\ pc' = "END"
  /\ UNCHANGED <<next_action, step_results, data_artifacts, uuid_count, executed, expert_payload>>
  /\ NodeFrame

AskUser ==
  /\ pc = "ask_user"
  /\ pc' = "END"
  /\ UNCHANGED <<next_action, step_results, data_artifacts, uuid_count, executed, expert_payload>>
  /\ StepFrame

Next ==
  \/ SupervisorLoopGuard
  \/ SupervisorQueue
  \/ SupervisorAdHocDone
  \/ SupervisorAskTool
  \/ SupervisorSubsystemPlan
  \/ SupervisorHealthPlan
  \/ SupervisorTrendPlan
  \/ SupervisorRagPlan
  \/ SupervisorAdHoc
  \/ SupervisorDecision
  \/ DataAnalystInvalidTool
  \/ DataAnalystTemplate
  \/ DataAnalystBadDates
  \/ DataAnalystGenericSql
  \/ DataAnalystPython
  \/ DataAnalystAttachRawLlm
  \/ DomainExpertSubsystem
  \/ DomainExpertGeneral
  \/ VisualizerNoDataset
  \/ VisualizerPlot
  \/ RagQa
  \/ RagQaRaises
  \/ Aggregator
  \/ AskUser

Spec == Init /\ [][Next]_vars

\* the graph runtime runs the next node whenever there is one
FairSpec == Spec /\ WF_vars(Next)

\* ------------------------------------------- identifier resolution alone
\* _extract_tool applied to one set of arguments
Message(role, content) == [role |-> role, content |-> content]

ToolQueries ==
  { Text({"health"}, <<>>, <<>>),
    Text({"health"}, <<"8950xr-p2">>, <<>>),
    Text({"health"}, <<"P2">>, <<>>),
    Text({"health"}, <<"8950XR-P9", "8950XR-P3">>, <<>>) }

ToolClarifications ==
  { NoAnswers,
    [k \in {"tool"} |-> Text({}, <<"8950xr-p4">>, <<>>)],
    [k \in {"tool", "tool_id"} |->
       IF k = "tool" THEN Text({}, <<"P4">>, <<>>) ELSE Text({}, <<"8950XR-P3">>, <<>>)],
    [k \in {"tool", "tool_id"} |->
       IF k = "tool" THEN Text({}, <<"8950XR-P4">>, <<>>) ELSE Text({}, <<"8950XR-P3">>, <<>>)],
    [k \in {"clarify"} |-> Text({}, <<"8950XR-P3">>, <<>>)] }

LastTools == {Absent, "8950XR-P1", "P1"}

Histories ==
  { <<>>,
    << Message("user", Text({}, <<"8950XR-P1">>, <<>>)),
       Message("assistant", Text({}, <<"8950xr-p4">>, <<>>)) >>,
    << Message("user", Text({}, <<"8950XR-P1">>, <<>>)),
       Message("assistant", Text({}, <<"P4">>, <<>>)) >> }

ToolInit ==
  /\ pc = "extract_tool"
  /\ user_query \in ToolQueries
  /\ clarification_answers \in ToolClarifications
  /\ last_tool \in LastTools
  /\ chat_history \in Histories
  /\ database_schema = AllTables
  /\ next_action = None
  /\ action_queue = <<>>
  /\ step_results = <<>>
  /\ data_artifacts = <<>>
  /\ pending_clarification = NoClarification
  /\ final_answer = Absent
  /\ loop_count = 0
  /\ subsystem_mode = FALSE
  /\ llm_calls = 0
  /\ planner_calls = 0
  /\ last_response = NoResponse
  /\ uuid_count = 0
  /\ executed = <<>>
  /\ expert_payload = NoPayload
  /\ dispatched = <<>>
  /\ resolved = Absent
  /\ session = NewSession
  /\ NoStores

ExtractTool ==
  /\ pc = "extract_tool"
  /\ resolved' = _extract_tool(user_query, clarification_answers, last_tool, chat_history)
  /\ pc' = "extracted"
  /\ UNCHANGED <<inputs, last_tool, next_action, action_queue, step_results,
                 data_artifacts, pending_clarification, final_answer, loop_count,
                 subsystem_mode, llm_calls, planner_calls, last_response, uuid_count, executed,
                 expert_payload, dispatched, session>>

ToolNext == ExtractTool

ToolSpec == ToolInit /\ [][ToolNext]_vars

\* -------------------------------------------------- the chat front end
\* app/main_streamlit.py: one prompt is passed through the clarification gate,
\* the graph is run on the resulting query and answers, and the session state is
\* updated from the final state of the run.
SessionPrompts ==
  { Text({"health"}, <<>>, <<>>),
    Text({"health"}, <<"8950XR-P1">>, <<>>),
    Text({"how to", "manual"}, <<>>, <<>>),
    Text({}, <<>>, <<>>),
    Text({}, <<"8950xr-p4">>, <<>>),
    Text({}, <<"P4">>, <<>>) }

FinalState(clarification, answer, raised, tool) ==
  [pending_clarification |-> clarification, final_answer |-> answer, raised |-> raised,
   last_tool |-> tool]

\* a run that ends in the aggregator; tool is the last_tool the planner wrote
Answered(tool) == {FinalState(NoClarification, a, FALSE, tool) : a \in AggregatorContents}

Raised == FinalState(NoClarification, Absent, TRUE, Absent)

\* the clarifications the decision service can ask for
DecisionAsks ==
  {ClarificationOf(ParseDecision(r)) : r \in DecisionResponses} \ {NoClarification}

\* how one run of the graph can end for a query and its clarification answers:
\* the last state stream_graph yields, or an exception.  The initial state
\* _init_app_and_state builds holds neither last_tool nor chat_history.
FinalStates(query, answers) ==
  LET tool == _extract_tool(query, answers, Absent, <<>>)
  IN IF is_health(query)
     THEN IF tool = Absent
          THEN {FinalState([id |-> "tool", question |-> ToolQuestion], Absent, FALSE,
                           Absent)}
          ELSE Answered(tool)
     ELSE IF is_trend(query) /\ tool # Absent /\ _extract_date_range(query) # <<>>
     THEN Answered(tool)
     ELSE IF is_rag(query) THEN Answered(Absent) \cup {Raised}
     ELSE IF is_dataish(query) /\ _infer_tables(query, AllTables) # {}
     THEN Answered(Absent)
     ELSE Answered(Absent) \cup {Raised}
          \cup {FinalState(c, Absent, FALSE, Absent) : c \in DecisionAsks}

SessionInit ==
  /\ pc = "input"
  /\ user_query = EmptyText
  /\ clarification_answers = NoAnswers
  /\ last_tool = Absent
  /\ chat_history = <<>>
  /\ database_schema = AllTables
  /\ next_action = None
  /\ action_queue = <<>>
  /\ step_results = <<>>
  /\ data_artifacts = <<>>
  /\ pending_clarification = NoClarification
  /\ final_answer = Absent
  /\ loop_count = 0
  /\ subsystem_mode = FALSE
  /\ llm_calls = 0
  /\ planner_calls = 0
  /\ last_response = NoResponse
  /\ uuid_count = 0
  /\ executed = <<>>
  /\ expert_payload = NoPayload
  /\ dispatched = <<>>
  /\ resolved = Absent
  /\ session = NewSession
  /\ NoStores

\* what neither the gate, the run's summary nor the session update touches
SessionFrame ==
  UNCHANGED <<stores, chat_history, database_schema, next_action, action_queue,
              step_results, data_artifacts, loop_count, subsystem_mode, llm_calls,
              planner_calls, last_response, uuid_count, executed, expert_payload, dispatched,
              resolved>>

\* the prompt taken as the query in place of the remembered question
GateAnswerAsQuery ==
  /\ pc = "input"
  /\ session.turn < MaxTurns
  /\ session.pending_clarification # NoClarification
  /\ \E prompt \in SessionPrompts :
       LET clar_id == session.pending_clarification.id
           payload == IF clar_id # Absent
                      THEN (clar_id :> prompt) @@ session.clarification_answers
                      ELSE session.clarification_answers
       IN /\ clarification_answers' = payload
          /\ user_query' = prompt
          /\ session' = [session EXCEPT !.clarification_answers = payload,
                                        !.pending_clarification = NoClarification,
                                        !.prompt = prompt, !.turn = @ + 1,
                                        !.answering = clar_id]
  /\ pending_clarification' = NoClarification
  /\ final_answer' = Absent
  /\ pc' = "invoke"
  /\ UNCHANGED last_tool
  /\ SessionFrame

\* an answer already stored under the pending id is kept
GateAnswerKeepsFirst ==
  /\ pc = "input"
  /\ session.turn < MaxTurns
  /\ session.pending_clarification # NoClarification
  /\ \E prompt \in SessionPrompts :
       LET clar_id == session.pending_clarification.id
           payload == IF clar_id # Absent
                      THEN session.clarification_answers @@ (clar_id :> prompt)
                      ELSE session.clarification_answers
       IN /\ clarification_answers' = payload
          /\ user_query' = IF session.last_user_query # <<>>
                           THEN session.last_user_query[1] ELSE prompt
          /\ session' = [session EXCEPT !.clarification_answers = payload,
                                        !.pending_clarification = NoClarification,
                                        !.prompt = prompt, !.turn = @ + 1,
                                        !.answering = clar_id]
  /\ pending_clarification' = NoClarification
  /\ final_answer' = Absent
  /\ pc' = "invoke"
  /\ UNCHANGED last_tool
  /\ SessionFrame

\* the prompt answers the pending clarification
GateAnswer ==
  /\ pc = "input"
  /\ session.turn < MaxTurns
  /\ session.pending_clarification # NoClarification
  /\ \E prompt \in SessionPrompts :
       LET clar_id == session.pending_clarification.id
           payload == IF clar_id # Absent
                      THEN (clar_id :> prompt) @@ session.clarification_answers
                      ELSE session.clarification_answers
       IN /\ clarification_answers' = payload
          /\ user_query' = IF session.last_user_query # <<>>
                           THEN session.last_user_query[1] ELSE prompt
          /\ session' = [session EXCEPT !.clarification_answers = payload,
                                        !.pending_clarification = NoClarification,
                                        !.prompt = prompt, !.turn = @ + 1,
                                        !.answering = clar_id]
  /\ pending_clarification' = NoClarification
  /\ final_answer' = Absent
  /\ pc' = "invoke"
  /\ UNCHANGED last_tool
  /\ SessionFrame

\* the prompt is a new question
GateFresh ==
  /\ pc = "input"
  /\ session.turn < MaxTurns
  /\ session.pending_clarification = NoClarification
  /\ \E prompt \in SessionPrompts :
       /\ clarification_answers' = session.clarification_answers
       /\ user_query' = prompt
       /\ session' = [session EXCEPT !.last_user_query = <<prompt>>,
                                     !.prompt = prompt, !.turn = @ + 1,
                                     !.answering = Absent]
  /\ pending_clarification' = NoClarification
  /\ final_answer' = Absent
  /\ pc' = "invoke"
  /\ UNCHANGED last_tool
  /\ SessionFrame

\* stream_graph(user_query, clarification_answers) run to its last state
Invocation ==
  /\ pc = "invoke"
  /\ \E final \in FinalStates(user_query, clarification_answers) :
       /\ pending_clarification' = final.pending_clarification
       /\ final_answer' = final.final_answer
       /\ last_tool' = final.last_tool
       /\ pc' = IF final.raised THEN "failed" ELSE "update"
  /\ UNCHANGED <<inputs, session>>
  /\ SessionFrame

\* the session update after the run
SessionUpdate ==
  /\ pc = "update"
  /\ session' =
       [session EXCEPT !.pending_clarification =
          IF pending_clarification # NoClarification /\ final_answer \in {Absent, ""}
          THEN pending_clarification ELSE NoClarification]
  /\ pc' = "input"
  /\ UNCHANGED <<inputs, pending_clarification, final_answer, last_tool>>
  /\ SessionFrame

\* the except branch around the run
SessionFailure ==
  /\ pc = "failed"
  /\ session' = [session EXCEPT !.pending_clarification = NoClarification,
                                !.last_user_query = <<user_query>>]
  /\ pc' = "input"
  /\ UNCHANGED <<inputs, pending_clarification, final_answer, last_tool>>
  /\ SessionFrame

SessionNext ==
  \/ GateAnswer
  \/ GateFresh
  \/ Invocation
  \/ SessionUpdate
  \/ SessionFailure

SessionSpec == SessionInit /\ [][SessionNext]_vars


\* ------------------------------------------ evidence at row granularity
\* The subsystem plan with the rows of its two queries: execute_sqlite_query
\* writes the result file and the preview, _sql_state_update attaches the rows
\* read back from the file when there are few of them, and the interpretation
\* step builds the subsystem table from what the step results carry.

\* Overdue calibration rows in one calibration table.
MaxOverdueRows == 6

PREVIEW_ROWS == 5
ROWS_CAP == 50
MAX_SQL_ROWS == 1000
\* 0.05, with ratios counted in units of 1/10000 (the query rounds to 4 places)
WC_RATIO_LIMIT == 500

NaN == "nan"

Range(seq) == {seq[i] : i \in DOMAIN seq}

\* dict.get(key): Absent for a missing key
Get(dict, key) == IF key \in DOMAIN dict THEN dict[key] ELSE Absent

\* the columns of the two queries that the interpretation step reads
CalColumns == <<"tool", "subsystem", "cal_name", "is_overdue">>
WcColumns == <<"tool", "recipe", "wc_abnormal_ratio">>

\* a row as the cursor returns it; every value is written as its text, NULL is
\* Absent
CalRow(subsystem, cal_name, overdue) == <<"8950XR-P2", subsystem, cal_name, overdue>>
WcRow(recipe, ratio) == <<"8950XR-P2", recipe, ratio>>

\* subsystems with overdue rows in the calibrations table
DataSubsystems == {"Stage", "Laser"}

\* Laser calibrations carry no name (NULL)
CalNameOf(subsystem) == IF subsystem = "Laser" THEN Absent ELSE "encoder"

\* rows that are not overdue, all of the Focus subsystem
Paddings == {0, ROWS_CAP - PREVIEW_ROWS, ROWS_CAP}

\* ORDER BY is_overdue DESC, due_date ASC: the overdue rows first, in any order
\* of their subsystems
CalTable(overdue, padding) ==
  [i \in 1..(Len(overdue) + padding) |->
     IF i <= Len(overdue) THEN CalRow(overdue[i], CalNameOf(overdue[i]), "1")
     ELSE CalRow("Focus", "focus_gain", "0")]

CalTables ==
  {CalTable(overdue, padding) :
     overdue \in UNION {[1..k -> DataSubsystems] : k \in 0..MaxOverdueRows},
     padding \in Paddings}

\* ORDER BY wc_abnormal_ratio DESC: one row per recipe
WcTables ==
  { <<>>,
    <<WcRow("R1", "0.0")>>,
    <<WcRow("R1", "0.05")>>,
    <<WcRow("R1", "0.0501"), WcRow("R2", "0.05")>> }

\* ensure_limit: LIMIT max_limit appended to a query without one
ensure_limit(rows, max_limit) == SubSeq(rows, 1, Min(Len(rows), max_limit))

\* csv.writer: None is written as the empty field, any other value as its text
CsvField(value) == IF value = Absent THEN "" ELSE value

CsvLine(row) == [i \in DOMAIN row |-> CsvField(row[i])]

\* the file execute_sqlite_query writes: the header if there are columns, then
\* one line per row
CsvFile(columns, rows) ==
  (IF columns # <<>> THEN <<CsvLine(columns)>> ELSE <<>>) \o [i \in DOMAIN rows |-> CsvLine(rows[i])]

\* {col: val for col, val in zip(columns, row)}: a later duplicate column wins
Zip(columns, row) ==
  LET n == Min(Len(columns), Len(row))
  IN [c \in {columns[i] : i \in 1..n} |->
        row[CHOOSE i \in 1..n : columns[i] = c /\ \A j \in (i + 1)..n : columns[j] # c]]

execute_sqlite_query(result, columns, outcome, dataset_id) ==
  IF outcome = "ok"
  THEN LET rows == ensure_limit(result, MAX_SQL_ROWS)
       IN [status |-> "ok", dataset_id |-> dataset_id, csv_path |-> dataset_id,
           row_count |-> Len(rows), columns |-> columns,
           sample_preview |->
             [i \in 1..Min(PREVIEW_ROWS, Len(rows)) |-> Zip(columns, rows[i])],
           written |-> CsvFile(columns, rows)]
  ELSE [status |-> "error", error_message |-> "sql error"]

\* pandas.read_csv(...).to_dict(orient="records"): the first line names the
\* columns and an empty field is read as NaN
PandasValue(field) == IF field = "" THEN NaN ELSE field

read_csv(file) ==
  [i \in 1..(Len(file) - 1) |->
     Zip(file[1], [j \in DOMAIN file[i + 1] |-> PandasValue(file[i + 1][j])])]

\* the cap compared with >= in place of >
LoadRowsBelowCap(cache, csv_path, row_count, cap) ==
  IF row_count <= 0 THEN <<<<>>>>
  ELSE IF row_count >= cap THEN <<>>
  ELSE IF csv_path \notin DOMAIN cache \/ Len(cache[csv_path]) = 0 THEN <<>>
  ELSE <<read_csv(cache[csv_path])>>

\* <<>> stands for None and <<rows>> for a list of rows
_load_rows_if_small(cache, csv_path, row_count, cap) ==
  IF row_count <= 0 THEN <<<<>>>>
  ELSE IF row_count > cap THEN <<>>
  ELSE IF csv_path \notin DOMAIN cache \/ Len(cache[csv_path]) = 0 THEN <<>>
  ELSE <<read_csv(cache[csv_path])>>

\* the rows a step result carries next to the fields of StepResult; rows is set
\* only if the file was loaded
WithRows(step, preview_rows, loaded) ==
  (IF Len(loaded) = 0 THEN <<>> ELSE "rows" :> loaded[1])
    @@ ("preview_rows" :> preview_rows) @@ step

\* _sql_state_update on the summary of one query
SqlRowsResult(action, reasoning, summary, cache) ==
  LET base == [StepResult(GetId(action, "sql"), "sql_analysis", reasoning)
                 EXCEPT !.used_tables = action.tables]
  IN IF summary.status = "ok"
     THEN WithRows([base EXCEPT !.dataset_id = summary.dataset_id, !.has_rows = TRUE],
                   summary.sample_preview,
                   _load_rows_if_small(cache, summary.csv_path, summary.row_count, ROWS_CAP))
     ELSE [base EXCEPT !.error = summary.error_message, !.reasoning = "SQL attempted"]

\* the row count taken from the preview in place of the result
DatasetArtifactPreviewCount(summary) ==
  [csv_path |-> summary.csv_path, row_count |-> Len(summary.sample_preview),
   columns |-> summary.columns, sample_preview |-> summary.sample_preview]

DatasetArtifact(summary) ==
  [csv_path |-> summary.csv_path, row_count |-> summary.row_count,
   columns |-> summary.columns, sample_preview |-> summary.sample_preview]

TemplateResult(id) ==
  CASE id = "calibration_overdue" -> calibrations
    [] id = "stage_wc_weekly" -> wc_points
    [] OTHER -> <<>>

TemplateColumns(id) ==
  CASE id = "calibration_overdue" -> CalColumns
    [] id = "stage_wc_weekly" -> WcColumns
    [] OTHER -> <<>>

\* data_analyst on a calibration_overdue or stage_wc_weekly action
DataAnalystTemplateRows ==
  /\ pc = "data_analyst"
  /\ IsTemplate(next_action)
  /\ next_action.id \in {"calibration_overdue", "stage_wc_weekly"}
  /\ _sanitize_tool(next_action.tool) # Absent
  /\ \E outcome \in ServiceOutcomes :
       LET summary == execute_sqlite_query(TemplateResult(next_action.id),
                                           TemplateColumns(next_action.id), outcome,
                                           DatasetId(uuid_count + 1))
           cache == IF outcome = "ok"
                    THEN (summary.csv_path :> summary.written) @@ runtime_cache
                    ELSE runtime_cache
       IN /\ runtime_cache' = cache
          /\ data_artifacts' =
               IF outcome = "ok"
               THEN (summary.dataset_id :> DatasetArtifact(summary)) @@ data_artifacts
               ELSE data_artifacts
          /\ step_results' =
               Append(step_results,
                      SqlRowsResult(next_action, TemplateReasoning(next_action.id),
                                    summary, cache))
          /\ uuid_count' = IF outcome = "ok" THEN uuid_count + 1 ELSE uuid_count
  /\ executed' = Append(executed, TemplateSql(next_action))
  /\ next_action' = None
  /\ pc' = AfterStep
  /\ UNCHANGED <<user_query, clarification_answers, chat_history, database_schema,
                 calibrations, wc_points, weekly, drift_rows, db_file, docs_files,
                 markdown_knowledge, table_markdown_index, last_tool, action_queue,
                 pending_clarification, final_answer, loop_count, subsystem_mode,
                 llm_calls, planner_calls, last_response, expert_payload, dispatched,
                 resolved, session>>

\* the subsystem table ----------------------------------------------------
DefaultSubsystems == {"Stage", "Camera", "Focus", "Illumination"}

\* a key that is set to a non-empty list
HasList(step, key) == key \in DOMAIN step /\ Len(step[key]) > 0

\* _rows: step.get("rows") or step.get("preview_rows") or []
_rows(step) ==
  IF HasList(step, "rows") THEN step["rows"]
  ELSE IF HasList(step, "preview_rows") THEN step["preview_rows"]
  ELSE <<>>

\* int(row.get("is_overdue", 0)) == 1, False if the conversion raises
is_overdue(row) == Get(row, "is_overdue") \in {"1", "1.0"}

\* str(value)
Str(value) == IF value = Absent THEN "None" ELSE value

SubsystemOf(row) == IF "subsystem" \in DOMAIN row THEN Str(row["subsystem"]) ELSE "Unknown"

RECURSIVE OverdueNames(_, _)
\* overdue_by_sub[sub]: the cal_name of each overdue row of the subsystem, in order
OverdueNames(rows, sub) ==
  IF rows = <<>> THEN <<>>
  ELSE (IF is_overdue(Head(rows)) /\ SubsystemOf(Head(rows)) = sub
        THEN <<Str(Get(Head(rows), "cal_name"))>> ELSE <<>>)
       \o OverdueNames(Tail(rows), sub)

\* the ratios of the tables, in units of 1/10000
Ratios == ("0.0" :> 0) @@ ("0.05" :> 500) @@ ("0.0501" :> 501)

\* float(row.get("wc_abnormal_ratio", 0.0)), 0.0 if the conversion raises; a NaN
\* never replaces the running maximum
RatioOf(row) ==
  LET r == Get(row, "wc_abnormal_ratio")
  IN IF r \in DOMAIN Ratios THEN Ratios[r] ELSE 0

RECURSIVE MaxRatio(_)
MaxRatio(rows) ==
  IF rows = <<>> THEN 0
  ELSE LET rest == MaxRatio(Tail(rows))
       IN IF RatioOf(Head(rows)) > rest THEN RatioOf(Head(rows)) ELSE rest

Lower(s) == IF s \in {"Stage", "STAGE"} THEN "stage" ELSE s

\* one row of rows_out
SubsystemRow(subsys, overdue_list, stage_wc_seen, stage_wc_ratio) ==
  LET stage == Lower(subsys) = "stage"
      exceeded == stage /\ stage_wc_seen /\ stage_wc_ratio > WC_RATIO_LIMIT
  IN [subsystem |-> subsys,
      status |-> IF overdue_list # <<>> \/ exceeded THEN "Unhealthy" ELSE "Healthy",
      overdue_count |-> Len(overdue_list),
      notes |-> (IF overdue_list # <<>>
                 THEN <<[note |-> "Overdue",
                         names |-> SubSeq(overdue_list, 1, Min(3, Len(overdue_list))),
                         more |-> Len(overdue_list) > 3]>>
                 ELSE <<>>)
                \o (IF stage /\ stage_wc_seen
                    THEN <<[note |-> "wc_abnormal_ratio", value |-> stage_wc_ratio]>>
                    ELSE <<>>)
                \o (IF exceeded THEN <<[note |-> "Stage wafer-center out-of-spec >5%"]>>
                    ELSE <<>>)]

\* the content of the subsystem answer: rows_out by subsystem (the code lists them
\* sorted by name) and the overall status
SubsystemContent(cal_rows, wc_rows) ==
  LET subsystems ==
        {SubsystemOf(cal_rows[i]) : i \in {j \in DOMAIN cal_rows : is_overdue(cal_rows[j])}}
          \cup DefaultSubsystems
      rows_out ==
        [s \in subsystems |->
           SubsystemRow(s, OverdueNames(cal_rows, s), wc_rows # <<>>, MaxRatio(wc_rows))]
  IN [status_text |-> IF \E s \in subsystems : rows_out[s].status = "Unhealthy"
                      THEN "Unhealthy" ELSE "Healthy",
      rows_out |-> rows_out,
      tool_guess |-> IF cal_rows # <<>> THEN Str(Get(cal_rows[1], "tool"))
                     ELSE IF wc_rows # <<>> THEN Str(Get(wc_rows[1], "tool"))
                     ELSE "",
      missing_wc |-> wc_rows = <<>>,
      missing_cal |-> cal_rows = <<>>]

\* a verdict that the drift labels can set as well
SubsystemAnswerWithDrift(findings) ==
  LET content == SubsystemContent(_rows(_find_step(findings, "calibration_overdue")),
                                  _rows(_find_step(findings, "stage_wc_weekly")))
      drift == _rows(_find_step(findings, "defect_drift_weekly"))
  IN [content EXCEPT !.status_text =
        IF \E i \in DOMAIN drift : Get(drift[i], "tool_health") = "UNHEALTHY"
        THEN "Unhealthy" ELSE @]

\* the answer of the subsystem formatter for the step results so far
SubsystemAnswer(findings) ==
  SubsystemContent(_rows(_find_step(findings, "calibration_overdue")),
                   _rows(_find_step(findings, "stage_wc_weekly")))

\* domain_expert in subsystem mode, on the rows the two step results carry
DomainExpertSubsystemRows ==
  /\ pc = "domain_expert"
  /\ subsystem_mode
  /\ LET content == SubsystemAnswer(step_results)
     IN step_results' =
          Append(step_results,
                 [StepResult(GetId(next_action, "domain_explain"), "domain_explain", content)
                    EXCEPT !.raw_llm = content])
  /\ next_action' = None
  /\ pc' = AfterStep
  /\ UNCHANGED <<data_artifacts, uuid_count, executed, expert_payload>>
  /\ StepFrame

SubsystemQuery == Text({"health", "subsystem"}, <<"8950XR-P2">>, <<>>)

\* the state the planner leaves for a subsystem health query: the head of the
\* subsystem plan pending, the rest queued
EvidenceInit ==
  /\ pc = "data_analyst"
  /\ user_query = SubsystemQuery
  /\ clarification_answers = NoAnswers
  /\ last_tool = "8950XR-P2"
  /\ chat_history = <<>>
  /\ database_schema = AllTables
  /\ next_action = Head(SubsystemPlan("8950XR-P2"))
  /\ action_queue = Tail(SubsystemPlan("8950XR-P2"))
  /\ step_results = <<>>
  /\ data_artifacts = <<>>
  /\ pending_clarification = NoClarification
  /\ final_answer = Absent
  /\ loop_count = 1
  /\ subsystem_mode = TRUE
  /\ llm_calls = 0
  /\ planner_calls = 1
  /\ last_response = NoResponse
  /\ uuid_count = 0
  /\ executed = <<>>
  /\ expert_payload = NoPayload
  /\ dispatched = <<Head(SubsystemPlan("8950XR-P2"))>>
  /\ resolved = Absent
  /\ session = NewSession
  /\ calibrations \in CalTables
  /\ wc_points \in WcTables
  /\ runtime_cache = <<>>
  /\ weekly = <<>>
  /\ drift_rows = <<>>
  /\ db_file = DbFile(TRUE, TRUE, AllTables)
  /\ docs_files = {}
  /\ markdown_knowledge = EmptyString
  /\ table_markdown_index = <<>>

EvidenceNext ==
  \/ DataAnalystTemplateRows
  \/ SupervisorQueue
  \/ DomainExpertSubsystemRows
  \/ DomainExpertGeneral
  \/ Aggregator

EvidenceSpec == EvidenceInit /\ [][EvidenceNext]_vars


\* ------------------------------------------------- the weekly drift query
\* _sql_defect_drift_weekly, one common table expression at a time.  weekly is
\* its first expression: defects_daily summed per (tool, recipe) over this week and
\* over last week; a pair without rows in defects_daily has no group.

DriftTools == {"8950XR-P1", "8950XR-P2"}
Recipes == <<"R1", "R2">>

ThisSums == {0, 9, 11, 12}
LastSums == {0, 10}

Group(present, this_sum, last_sum) ==
  [present |-> present, this_sum |-> this_sum, last_sum |-> last_sum]

Groups == {Group(FALSE, 0, 0)} \cup {Group(TRUE, t, l) : t \in ThisSums, l \in LastSums}

WeeklyTables == [DriftTools \X Range(Recipes) -> Groups]

Abs(n) == IF n < 0 THEN 0 - n ELSE n

\* ROUND(x, 4) of num/den, in units of 1/10000
Round4(num, den) == (2 * 10000 * num + den) \div (2 * den)

\* at least 10 % counted as anomalous
IsAnomAtLeast(this_sum, last_sum) ==
  IF last_sum > 0 /\ 10 * Abs(this_sum - last_sum) >= last_sum THEN 1 ELSE 0

\* last_sum > 0 AND abs(this_sum - last_sum) * 1.0 / last_sum > 0.10
is_anom(this_sum, last_sum) ==
  IF last_sum > 0 /\ 10 * Abs(this_sum - last_sum) > last_sum THEN 1 ELSE 0

\* <<>> stands for NULL
diff_pct(this_sum, last_sum) ==
  IF last_sum > 0 THEN <<Round4(Abs(this_sum - last_sum), last_sum)>> ELSE <<>>

\* the groups of weekly
GroupsOf(w) == {g \in DOMAIN w : w[g].present}

calc(w) ==
  [g \in GroupsOf(w) |->
     [tool |-> g[1], recipe |-> g[2], this_sum |-> w[g].this_sum,
      last_sum |-> w[g].last_sum,
      diff_pct |-> diff_pct(w[g].this_sum, w[g].last_sum),
      is_anom |-> is_anom(w[g].this_sum, w[g].last_sum)]]

\* k_anom per recipe: the anomalous rows of calc with that recipe
recipe_k(c) ==
  [r \in {g[2] : g \in DOMAIN c} |->
     Cardinality({g \in DOMAIN c : g[2] = r /\ c[g].is_anom = 1})]

\* the label decided without the count of anomalous tools
DriftLabelOwnTool(last_sum, anom, k_anom) ==
  IF last_sum = 0 THEN "UNKNOWN_BASELINE"
  ELSE IF anom = 0 THEN "STABLE"
  ELSE "TOOL_DRIFT"

drift_label(last_sum, anom, k_anom) ==
  IF last_sum = 0 THEN "UNKNOWN_BASELINE"
  ELSE IF anom = 0 THEN "STABLE"
  ELSE IF k_anom = 1 THEN "TOOL_DRIFT"
  ELSE "PROCESS_DRIFT"

labeled(c) ==
  [g \in DOMAIN c |->
     [tool |-> c[g].tool, recipe |-> c[g].recipe, this_sum |-> c[g].this_sum,
      last_sum |-> c[g].last_sum, diff_pct |-> c[g].diff_pct,
      k_anom |-> recipe_k(c)[g[2]],
      drift_label |-> drift_label(c[g].last_sum, c[g].is_anom, recipe_k(c)[g[2]])]]

CountLabel(l, tool, label) ==
  Cardinality({g \in DOMAIN l : g[1] = tool /\ l[g].drift_label = label})

\* a tool counted unhealthy for any drifting recipe, process drift included
ToolStatusAnyDrift(l) ==
  [t \in {g[1] : g \in DOMAIN l} |->
     [tool_health |->
        IF CountLabel(l, t, "TOOL_DRIFT") + CountLabel(l, t, "PROCESS_DRIFT") > 0
        THEN "UNHEALTHY" ELSE "HEALTHY",
      tool_drift_recipe_count |-> CountLabel(l, t, "TOOL_DRIFT"),
      unknown_baseline_recipe_count |-> CountLabel(l, t, "UNKNOWN_BASELINE")]]

tool_status(l) ==
  [t \in {g[1] : g \in DOMAIN l} |->
     [tool_health |-> IF CountLabel(l, t, "TOOL_DRIFT") > 0 THEN "UNHEALTHY" ELSE "HEALTHY",
      tool_drift_recipe_count |-> CountLabel(l, t, "TOOL_DRIFT"),
      unknown_baseline_recipe_count |-> CountLabel(l, t, "UNKNOWN_BASELINE")]]

LabelRank(label) ==
  CASE label = "TOOL_DRIFT" -> 3
    [] label = "PROCESS_DRIFT" -> 2
    [] label = "UNKNOWN_BASELINE" -> 1
    [] OTHER -> 0

RecipeIndex(recipe) == CHOOSE i \in DOMAIN Recipes : Recipes[i] = recipe

\* ORDER BY the rank of the label DESC, recipe ASC
Before(a, b) ==
  \/ LabelRank(a.drift_label) > LabelRank(b.drift_label)
  \/ /\ LabelRank(a.drift_label) = LabelRank(b.drift_label)
     /\ RecipeIndex(a.recipe) < RecipeIndex(b.recipe)

RECURSIVE Ordered(_)
Ordered(rows) ==
  IF rows = {} THEN <<>>
  ELSE LET first == CHOOSE a \in rows : \A b \in rows \ {a} : Before(a, b)
       IN <<first>> \o Ordered(rows \ {first})

\* the rows of the final SELECT for one tool, and the expressions they come from
_sql_defect_drift_weekly(w, tool) ==
  LET c == calc(w)
      l == labeled(c)
      ts == tool_status(l)
  IN [tool |-> tool,
      calc |-> c,
      labeled |-> l,
      result |->
        Ordered({ [tool |-> tool, recipe |-> l[g].recipe, s_this_week |-> l[g].this_sum,
                   s_last_week |-> l[g].last_sum, diff_pct |-> l[g].diff_pct,
                   k_anom |-> l[g].k_anom, drift_label |-> l[g].drift_label,
                   tool_health |-> ts[tool].tool_health,
                   tool_drift_recipe_count |-> ts[tool].tool_drift_recipe_count,
                   unknown_baseline_recipe_count |->
                     ts[tool].unknown_baseline_recipe_count] :
                  g \in {h \in DOMAIN l : h[1] = tool} })]

DriftInit ==
  /\ pc = "defect_drift_weekly"
  /\ user_query = EmptyText
  /\ clarification_answers = NoAnswers
  /\ last_tool = Absent
  /\ chat_history = <<>>
  /\ database_schema = AllTables
  /\ next_action = None
  /\ action_queue = <<>>
  /\ step_results = <<>>
  /\ data_artifacts = <<>>
  /\ pending_clarification = NoClarification
  /\ final_answer = Absent
  /\ loop_count = 0
  /\ subsystem_mode = FALSE
  /\ llm_calls = 0
  /\ planner_calls = 0
  /\ last_response = NoResponse
  /\ uuid_count = 0
  /\ executed = <<>>
  /\ expert_payload = NoPayload
  /\ dispatched = <<>>
  /\ resolved = Absent
  /\ session = NewSession
  /\ calibrations = <<>>
  /\ wc_points = <<>>
  /\ runtime_cache = <<>>
  /\ weekly \in WeeklyTables
  /\ drift_rows = <<>>
  /\ db_file = DbFile(TRUE, TRUE, AllTables)
  /\ docs_files = {}
  /\ markdown_knowledge = EmptyString
  /\ table_markdown_index = <<>>

\* the query run for one tool
SqlDefectDriftWeekly ==
  /\ pc = "defect_drift_weekly"
  /\ \E tool \in DriftTools : drift_rows' = _sql_defect_drift_weekly(weekly, tool)
  /\ pc' = "drift_done"
  /\ UNCHANGED <<user_query, clarification_answers, chat_history, database_schema,
                 calibrations, wc_points, runtime_cache, weekly, db_file, docs_files,
                 markdown_knowledge, table_markdown_index, last_tool, next_action,
                 action_queue, step_results, data_artifacts, pending_clarification,
                 final_answer, loop_count, subsystem_mode, llm_calls, planner_calls,
                 last_response, uuid_count, executed, expert_payload, dispatched, resolved, session>>

DriftNext == SqlDefectDriftWeekly

DriftSpec == DriftInit /\ [][DriftNext]_vars

\* ------------------------------------------------------ context loading
\* the most files the documentation directory holds
MaxDocFiles == 2

\* table names a database file may hold
DbNames == AllTables \cup {"sqlite_sequence", "sqlitedata"}

\* name LIKE 'sqlite_%': _ stands for any one character, so every name that
\* begins with sqlite and has a seventh character matches
LikeSqlite(name) == name \in {"sqlite_sequence", "sqlitedata"}

DbFiles ==
  {DbFile(FALSE, FALSE, {}), DbFile(TRUE, FALSE, {})}
    \cup {DbFile(TRUE, TRUE, tables) : tables \in SUBSET DbNames}

\* the connection attempted without the test for the file
LoadSchemaWithoutTest(file) ==
  IF ~file.exists \/ ~file.valid THEN [raised |-> TRUE, tables |-> {}]
  ELSE [raised |-> FALSE, tables |-> {t \in file.tables : ~LikeSqlite(t)}]

\* the loader returns the table names, or raises on a file that is no database
load_database_schema(file) ==
  IF ~file.exists THEN [raised |-> FALSE, tables |-> {}]
  ELSE IF ~file.valid THEN [raised |-> TRUE, tables |-> {}]
  ELSE [raised |-> FALSE, tables |-> {t \in file.tables : ~LikeSqlite(t)}]

\* file names in path order, and the texts a file may hold
DocNames == <<"a.md", "b.md", "notes.txt">>

DocTexts ==
  { EmptyString,
    <<"# Glossary", "## Table: defects_daily", "Daily defect counts.", "">>,
    <<"## 1. calibrations", "", "## Table: defects_daily", "Due dates.">>,
    <<"## Overview notes", "Due dates.">> }

DocFile(name, text) == [name |-> name, text |-> text]

\* a directory holds at most one file of a name
DocsDirs ==
  {dir \in SUBSET {DocFile(DocNames[i], text) : i \in DOMAIN DocNames, text \in DocTexts} :
     /\ Cardinality(dir) <= MaxDocFiles
     /\ \A f, g \in dir : f.name = g.name => f = g}

\* the sorted glob of the md pattern: the markdown files in path order
RECURSIVE Sorted(_, _)
Sorted(dir, i) ==
  IF i > Len(DocNames) THEN <<>>
  ELSE (IF \E f \in dir : f.name = DocNames[i]
        THEN <<CHOOSE f \in dir : f.name = DocNames[i]>> ELSE <<>>) \o Sorted(dir, i + 1)

\* every file of the directory taken for markdown
AllPaths(dir) == Sorted(dir, 1)

all_md_paths(dir) == Sorted({f \in dir : f.name \in {"a.md", "b.md"}}, 1)

\* the line that names the file
FileHeader(name) ==
  CASE name = "a.md" -> "# File: a.md"
    [] name = "b.md" -> "# File: b.md"
    [] OTHER -> "# File: notes.txt"

\* heading_pat: the table name a level-two heading line gives, if it is one word
heading_pat(line) ==
  CASE line = "## Table: defects_daily" -> "defects_daily"
    [] line = "## 1. calibrations" -> "calibrations"
    [] OTHER -> Absent

\* line.startswith: the line begins with a hash sign
StartsWithHash(line) ==
  line \in {"# Glossary", "## Table: defects_daily", "## 1. calibrations",
            "## Overview notes"}

\* str.splitlines: a final newline opens no further line
splitlines(text) ==
  IF text[Len(text)] = "" THEN SubSeq(text, 1, Len(text) - 1) ELSE text

\* strip() of the joined lines: blank lines at either end are dropped
strip(lines) ==
  LET full == {i \in DOMAIN lines : lines[i] # ""}
  IN IF full = {} THEN EmptyString
     ELSE SubSeq(lines, CHOOSE i \in full : \A j \in full : i <= j,
                 CHOOSE i \in full : \A j \in full : j <= i)

\* the lines from position i up to the next line that starts with #
RECURSIVE Captured(_, _)
Captured(lines, i) ==
  IF i > Len(lines) \/ StartsWithHash(lines[i]) THEN <<>>
  ELSE <<lines[i]>> \o Captured(lines, i + 1)

\* the section under the heading found at line start_idx
extract_table_section(text, start_idx) ==
  strip(Captured(splitlines(SubSeq(text, start_idx, Len(text))), 2))

\* the headings of one text from line i on: a later section replaces an earlier
\* one of the same name, an empty section is not indexed
RECURSIVE IndexHeadings(_, _, _)
IndexHeadings(text, i, table_index) ==
  IF i > Len(text) THEN table_index
  ELSE IndexHeadings(text, i + 1,
         IF /\ heading_pat(text[i]) # Absent
            /\ extract_table_section(text, i) # EmptyString
         THEN (heading_pat(text[i]) :> extract_table_section(text, i)) @@ table_index
         ELSE table_index)

RECURSIVE IndexFiles(_, _)
IndexFiles(paths, table_index) ==
  IF paths = <<>> THEN table_index
  ELSE IndexFiles(Tail(paths), IndexHeadings(Head(paths).text, 1, table_index))

\* the contents joined with one blank line between them
RECURSIVE Join(_)
Join(contents) ==
  IF contents = <<>> THEN EmptyString
  ELSE IF Len(contents) = 1 THEN contents[1]
  ELSE contents[1] \o <<"">> \o Join(Tail(contents))

load_markdown_knowledge(dir) ==
  LET paths == all_md_paths(dir)
  IN [knowledge |->
        Join([i \in DOMAIN paths |-> <<FileHeader(paths[i].name)>> \o paths[i].text]),
      table_index |-> IndexFiles(paths, <<>>)]

\* questions put to the planner once the context is loaded
LoaderQueries ==
  { Text({"count"}, <<"P2">>, <<>>),
    Text({"defect", "count"}, <<"P2">>, <<>>),
    Text({"table"}, <<>>, <<>>) }

\* before _init_app_and_state has loaded anything
LoaderInit ==
  /\ pc = "load_database_schema"
  /\ user_query \in LoaderQueries
  /\ clarification_answers = NoAnswers
  /\ last_tool = Absent
  /\ chat_history = <<>>
  /\ database_schema = {}
  /\ next_action = None
  /\ action_queue = <<>>
  /\ step_results = <<>>
  /\ data_artifacts = <<>>
  /\ pending_clarification = NoClarification
  /\ final_answer = Absent
  /\ loop_count = 0
  /\ subsystem_mode = FALSE
  /\ llm_calls = 0
  /\ planner_calls = 0
  /\ last_response = NoResponse
  /\ uuid_count = 0
  /\ executed = <<>>
  /\ expert_payload = NoPayload
  /\ dispatched = <<>>
  /\ resolved = Absent
  /\ session = NewSession
  /\ calibrations = <<>>
  /\ wc_points = <<>>
  /\ runtime_cache = <<>>
  /\ weekly = <<>>
  /\ drift_rows = <<>>
  /\ db_file \in DbFiles
  /\ docs_files \in DocsDirs
  /\ markdown_knowledge = EmptyString
  /\ table_markdown_index = <<>>

\* what loading leaves alone
LoaderFrame ==
  UNCHANGED <<user_query, clarification_answers, chat_history, calibrations, wc_points,
              runtime_cache, weekly, drift_rows, db_file, docs_files, last_tool,
              next_action, action_queue, step_results, data_artifacts,
              pending_clarification, final_answer, loop_count, subsystem_mode,
              llm_calls, planner_calls, last_response, uuid_count, executed, expert_payload,
              dispatched, resolved, session>>

\* _init_app_and_state: schema = load_database_schema(config.db_path)
LoadDatabaseSchema ==
  /\ pc = "load_database_schema"
  /\ LET loaded == load_database_schema(db_file)
     IN IF loaded.raised
        THEN pc' = "raised" /\ UNCHANGED database_schema
        ELSE pc' = "load_markdown_knowledge" /\ database_schema' = loaded.tables
  /\ UNCHANGED <<markdown_knowledge, table_markdown_index>>
  /\ LoaderFrame

\* _init_app_and_state: the knowledge loaded, then the initial state handed to the
\* graph's entry point
LoadMarkdownKnowledge ==
  /\ pc = "load_markdown_knowledge"
  /\ LET loaded == load_markdown_knowledge(docs_files)
     IN /\ markdown_knowledge' = loaded.knowledge
        /\ table_markdown_index' = loaded.table_index
  /\ pc' = "supervisor"
  /\ UNCHANGED database_schema
  /\ LoaderFrame

LoaderNext == LoadDatabaseSchema \/ LoadMarkdownKnowledge \/ SupervisorAdHoc

LoaderSpec == LoaderInit /\ [][LoaderNext]_vars


\* =================================================================== claims
Terminated == pc \in {"END", "raised"}

DispatchTargets ==
  {"data_analyst", "domain_expert", "rag_qa", "visualizer", "ask_user", "aggregator"}

\* the orchestrator has chosen an action and routing has picked the node to run
BeforeDispatch == pc \in DispatchTargets

CapabilityNodes == {"data_analyst", "domain_expert", "rag_qa", "visualizer"}

\* C1: whatever the decision service answers and however the capability steps come
\* out (success or structured error), the invocation reaches a terminal state and
\* loop_count never exceeds 21.  A run in which the document service raises is
\* outside the claim's outcomes; it ends at "raised" and is not asked to reach END.
C1_Termination == [](loop_count <= 21) /\ <>Terminated

\* C1 witness: the decision service was consulted on all 20 activations and the
\* invocation still ended, on the 21st.
C1_Witness == pc = "END" /\ loop_count = 21 /\ llm_calls = 20

\* C2: every orchestrator activation adds exactly 1 to loop_count and no other node
\* changes it; the forced finish happens exactly on the activation where the count
\* exceeds 20, clears pending_clarification, touches neither the queue, the planner
\* nor the decision service, and leads through final-answer synthesis to the end
\* with step_results as accumulated.
C2_LoopCount ==
  [][ /\ (pc = "supervisor" => loop_count' = loop_count + 1)
      /\ (pc # "supervisor" => loop_count' = loop_count)
      /\ (pc = "supervisor" /\ loop_count + 1 > 20 =>
            /\ next_action'.action_type = "finish"
            /\ next_action'.id = "auto_finish"
            /\ pending_clarification' = NoClarification
            /\ action_queue' = action_queue
            /\ planner_calls' = planner_calls
            /\ llm_calls' = llm_calls
            /\ step_results' = step_results
            /\ pc' = "aggregator")
      /\ (next_action'.id = "auto_finish" /\ pc = "supervisor" => loop_count' > 20)
      /\ (pc = "aggregator" =>
            pc' = "END" /\ step_results' = step_results /\ final_answer' # Absent)
    ]_vars

\* C2 witness: an invocation ended by the forced finish with 20 step results.
C2_Witness ==
  /\ pc = "END"
  /\ next_action.id = "auto_finish"
  /\ Len(step_results) = 20
  /\ final_answer # Absent

PendingSet == next_action # None
QueueNonEmpty == action_queue # <<>>
LoopTerminated == pc = "END" \/ final_answer # Absent

HowManyHold ==
  Cardinality({c \in {"pending", "queue", "terminated"} :
                 \/ c = "pending" /\ PendingSet
                 \/ c = "queue" /\ QueueNonEmpty
                 \/ c = "terminated" /\ LoopTerminated})

\* C3 as stated: before each dispatch exactly one of {pending action set, queue
\* non-empty, loop terminated} holds.
C3_ExactlyOne == BeforeDispatch => HowManyHold = 1

\* C3 amended: before each dispatch the pending action is set and the loop has not
\* terminated; the queue may be non-empty at the same time (it holds the rest of
\* the plan), so one or two of the three hold, never none and never all three.
C3_PendingSet == BeforeDispatch => PendingSet /\ ~LoopTerminated /\ HowManyHold \in {1, 2}

\* C3 witness: a plan step is pending while the rest of the plan is still queued.
C3_Witness == pc = "data_analyst" /\ PendingSet /\ QueueNonEmpty

RagResultAppended ==
  \E i \in 1..Len(step_results) : step_results[i].step_type = "rag_qa"

\* C4 as stated: once a document-search result is in step_results, the next
\* orchestrator activation chooses finish and consults neither the planner nor the
\* decision service.
C4_RagThenFinish ==
  [][ pc = "supervisor" /\ RagResultAppended =>
        /\ next_action'.action_type = "finish"
        /\ planner_calls' = planner_calls
        /\ llm_calls' = llm_calls ]_vars

SupportingKeys == {"calibration_overdue", "stage_wc_weekly"}

\* C5 as stated: the generative interpretation service is handed the primary
\* drift-classification evidence only, so supporting evidence cannot reach the
\* verdict.
C5_PrimaryEvidenceOnly == \A k \in SupportingKeys : expert_payload[k] = NoStep

\* the description names the response text (possibly cut to its first 300 characters)
CarriesRaw(description, r) == Len(description) = 3 /\ description[2] = r.text

\* C6 as stated: a decision-service response that is not JSON, or is JSON without
\* an action_type, becomes a finish action whose description carries the raw text.
C6_MalformedCarriesRaw ==
  [][ llm_calls' = llm_calls + 1
      /\ last_response'.kind \in {"not_json", "json_no_action_type"} =>
        /\ next_action'.action_type = "finish"
        /\ CarriesRaw(next_action'.description, last_response') ]_vars

\* the pending SQL action cannot run as asked: no valid tool, or a malformed date
InputFailure ==
  /\ IsTemplate(next_action)
  /\ \/ _sanitize_tool(next_action.tool) = Absent
     \/ next_action.id = "defect_trend_range" /\ ~DatesValid(next_action)

\* C7 as stated: a SQL-analysis action that fails (query error, missing or invalid
\* tool, malformed date range) appends a result with an error field and registers
\* no dataset.
C7_SqlFailureRegistersNothing ==
  [][ pc = "data_analyst" /\ next_action.action_type = "sql_analysis" =>
        LET appended == step_results'[Len(step_results')]
        IN /\ Len(step_results') = Len(step_results) + 1
           /\ InputFailure => appended.error # Absent
           /\ appended.error # Absent => data_artifacts' = data_artifacts ]_vars

\* C8 as stated: no capability step lets a failure of its external service escape
\* as an exception; the invocation goes on to the next orchestrator activation.
C8_StepsCatchFailures ==
  [][ (pc \in CapabilityNodes) => pc' \in {"supervisor", "data_analyst_raw_llm"} ]_vars

\* C9: in a terminal state pending_clarification and final_answer are not both
\* set: ending through final-answer synthesis leaves pending_clarification cleared,
\* ending at the ask_user stop leaves final_answer unset.
C9_Exclusive ==
  pc = "END" =>
    /\ ~(pending_clarification # NoClarification /\ final_answer # Absent)
    /\ (next_action.action_type = "ask_user" => final_answer = Absent)
    /\ (next_action.action_type # "ask_user" =>
          final_answer # Absent /\ pending_clarification = NoClarification)

\* C9 witness: the decision service asked the user after a step had run, and the
\* invocation ended at the ask_user stop.
C9_Witness ==
  /\ pc = "END"
  /\ pending_clarification.id = "clarify"
  /\ step_results # <<>>
  /\ final_answer = Absent

\* C10 as stated: step_results never shrinks and no entry, the last one included,
\* changes after the append that created it.
C10_AppendOnly ==
  [][ /\ Len(step_results') >= Len(step_results)
      /\ \A i \in 1..Len(step_results) : step_results'[i] = step_results[i] ]_vars

\* C11: an activation that finds action_queue non-empty (loop bound not exceeded)
\* makes exactly the head the pending action, keeps the tail in order and consults
\* neither planner nor decision service; no other node touches the queue, so the
\* plan is dispatched in queue order whatever the outcome of its earlier steps.
C11_QueueOrder ==
  [][ /\ (pc = "supervisor" /\ action_queue # <<>> /\ loop_count + 1 <= 20 =>
            /\ next_action' = Head(action_queue)
            /\ action_queue' = Tail(action_queue)
            /\ dispatched' = Append(dispatched, Head(action_queue))
            /\ pc' = route_supervisor(Head(action_queue))
            /\ planner_calls' = planner_calls
            /\ llm_calls' = llm_calls)
      /\ (pc # "supervisor" => action_queue' = action_queue /\ dispatched' = dispatched)
    ]_vars

\* C11 witness: the first step of a plan ended in a structured error and the plan
\* still went on, in order, to its third step.
C11_Witness ==
  /\ planner_calls = 1 /\ llm_calls = 0
  /\ Len(dispatched) = 3 /\ action_queue # <<>>
  /\ Len(step_results) >= 1 /\ step_results[1].error # Absent
  /\ dispatched[3].id = "stage_wc_weekly"

\* the valid tool tag a text mentions first, in canonical upper case
TagOf(text) == Upper(TOOL_RE_search(text))

\* the first entry of a sequence that is a tag
RECURSIVE FirstFound(_)
FirstFound(candidates) ==
  IF candidates = <<>> THEN Absent
  ELSE IF Head(candidates) # Absent THEN Head(candidates)
  ELSE FirstFound(Tail(candidates))

\* the answers stored under the ids "tool" and "tool_id", in that order
ToolAnswerTags ==
  [i \in 1..Len(ClarificationKeys) |->
     IF ClarificationKeys[i] \in DOMAIN clarification_answers
     THEN TagOf(clarification_answers[ClarificationKeys[i]]) ELSE Absent]

\* chat_history, newest message first
HistoryTags ==
  [i \in 1..Len(chat_history) |-> TagOf(chat_history[Len(chat_history) + 1 - i].content)]

LastToolTag == IF last_tool = Absent THEN Absent ELSE TagOf(Text({}, <<last_tool>>, <<>>))

\* the tags of all clarification answers, whatever id they are stored under
AnyAnswerTags ==
  {TagOf(clarification_answers[k]) : k \in DOMAIN clarification_answers} \ {Absent}

\* C12 as stated: the first valid tag found in the current query, then in the
\* clarification answers (any of them), then last_tool, then chat_history.
C12_AnyClarificationAnswer ==
  pc = "extracted" /\ TagOf(user_query) = Absent /\ AnyAnswerTags # {} =>
    resolved \in AnyAnswerTags

\* C12 amended: the first valid tag (full form 8950XR-P1..P4, any letter case) found
\* in the current query, then in the clarification answers stored under the ids
\* "tool" and "tool_id" (in that order), then in last_tool, then in chat_history
\* newest to oldest; a tag in the current query wins over every memory.
C12_Precedence ==
  pc = "extracted" =>
    /\ resolved =
         FirstFound(<<TagOf(user_query)>> \o ToolAnswerTags \o <<LastToolTag>> \o HistoryTags)
    /\ (TagOf(user_query) # Absent => resolved = TagOf(user_query))
    /\ resolved \in ToolTags \cup {Absent}

\* C12 witness: the query names 8950XR-P2 while 8950XR-P1 is remembered and other
\* tags sit in the clarifications and the history.
C12_Witness ==
  /\ pc = "extracted"
  /\ last_tool = "8950XR-P1"
  /\ chat_history # <<>> /\ clarification_answers # NoAnswers
  /\ resolved = "8950XR-P2"

HealthWithoutTool == is_health(user_query) /\ ResolvedTool = Absent

\* C13: for a health query for which no identifier resolves, the first activation
\* emits the single ask_user action with clarification id "tool" and the question
\* that lists the four tools, sets pending_clarification to that id and question and
\* leaves the queue empty; the invocation goes to the ask_user stop and ends with no
\* capability step dispatched and no final_answer.
C13_AskForTool ==
  HealthWithoutTool /\ pc # "supervisor" =>
    /\ loop_count = 1
    /\ dispatched = <<AskToolAction>>
    /\ next_action.action_type = "ask_user" /\ next_action.id = "tool"
    /\ next_action.clarification_question = ToolQuestion
    /\ pending_clarification = [id |-> "tool", question |-> ToolQuestion]
    /\ action_queue = <<>>
    /\ step_results = <<>>
    /\ final_answer = Absent
    /\ pc \in {"ask_user", "END"}

\* C13 witness: such an invocation ended, whether nothing was answered before or an
\* earlier answer named no valid tool.
C13_Witness ==
  /\ pc = "END" /\ HealthWithoutTool
  /\ clarification_answers # NoAnswers
  /\ pending_clarification.id = "tool"

\* an action as the claims name it: its type, its template id and its tool
Triple(action) == <<action.action_type, action.id, action.tool>>

TriplesOf(actions) == [i \in 1..Len(actions) |-> Triple(actions[i])]

\* what has been dispatched so far followed by what is still queued
PlanInProgress == TriplesOf(dispatched) \o TriplesOf(action_queue)

InterpretAndFinish ==
  << <<"domain_explain", "domain_explain", Absent>>, <<"finish", "finish", Absent>> >>

SupportingTriples(tool) ==
  << <<"sql_analysis", "calibration_overdue", tool>>,
     <<"sql_analysis", "stage_wc_weekly", tool>> >>

GeneralHealthQuery ==
  is_health(user_query) /\ ~is_subsystem(user_query) /\ ResolvedTool # Absent

\* C14: for a general health query with resolved tool T the actions dispatched are
\* exactly drift-by-week(T), then calibration-overdue(T) and positional-ratio(T) if
\* and only if reason intent is detected, then interpret and finish; subsystem_mode
\* is false and last_tool is T from the first activation on.
C14_HealthPlan ==
  GeneralHealthQuery /\ loop_count >= 1 =>
    /\ PlanInProgress =
         << <<"sql_analysis", "defect_drift_weekly", ResolvedTool>> >>
         \o (IF is_reason(user_query) THEN SupportingTriples(ResolvedTool) ELSE <<>>)
         \o InterpretAndFinish
    /\ (pc = "END" => action_queue = <<>>)
    /\ subsystem_mode = FALSE
    /\ last_tool = ResolvedTool
    /\ llm_calls = 0

\* C14 witness: a health-and-why question for 8950XR-P2 ran its five steps.
C14_Witness ==
  /\ pc = "END" /\ GeneralHealthQuery /\ is_reason(user_query)
  /\ Len(dispatched) = 5 /\ last_tool = "8950XR-P2"

SubsystemHealthQuery ==
  is_health(user_query) /\ is_subsystem(user_query) /\ ResolvedTool # Absent

\* C15 as stated: for a subsystem-scoped health query with resolved tool T the
\* actions dispatched are exactly calibration-overdue(T), positional-ratio(T),
\* interpret, finish, and subsystem_mode is true when the interpretation step is
\* dispatched, so that step makes no generative call.
C15_SubsystemInterpretation ==
  SubsystemHealthQuery /\ loop_count >= 1 =>
    /\ PlanInProgress = SupportingTriples(ResolvedTool) \o InterpretAndFinish
    /\ (pc = "domain_expert" => subsystem_mode = TRUE)
    /\ expert_payload = NoPayload

\* YYYYMMDD rewritten as YYYY-MM-DD
IsoOf(d) == <<d[1], d[2], d[3], d[4], "-", d[5], d[6], "-", d[7], d[8]>>

ExplicitRange ==
  /\ user_query.range # <<>>
  /\ IsDigits(user_query.range[1], 8)
  /\ user_query.range[2] \in {"to", "-", "~"}
  /\ IsDigits(user_query.range[3], 8)

TrendQuery ==
  is_trend(user_query) /\ ~is_health(user_query) /\ ResolvedTool # Absent /\ ExplicitRange

\* the plan is fetch-range(tool, from, to), visualize as a line chart, finish
IsTrendPlan(plan, tool, dfrom, dto) ==
  /\ Len(plan) = 3
  /\ Triple(plan[1]) = <<"sql_analysis", "defect_trend_range", tool>>
  /\ plan[1].date_from = dfrom /\ plan[1].date_to = dto
  /\ plan[2].action_type = "visualize" /\ plan[2].chart_type_hint = "line"
  /\ plan[3].action_type = "finish"

Jan01 == <<"2","0","2","4","0","1","0","1">>
Jan07 == <<"2","0","2","4","0","1","0","7">>

\* C16 as stated, its example: "show trend from 20240101 to 20240107 for P3" gives
\* fetch-range(P3, 2024-01-01, 2024-01-07), visualize(line), finish.
C16_ExampleAsWritten ==
  /\ user_query = Text({"trend"}, <<"P3">>, <<Jan01, "to", Jan07>>)
  /\ clarification_answers = NoAnswers
  /\ loop_count >= 1
  => IsTrendPlan(dispatched \o action_queue, "8950XR-P3", IsoOf(Jan01), IsoOf(Jan07))

\* C16 amended: for a trend query (no health intent) with a resolved identifier T
\* and an explicit YYYYMMDD pair the actions dispatched are exactly fetch-range(T,
\* from, to) with both dates rewritten as YYYY-MM-DD, visualize with chart hint
\* line, finish; the example holds when the query names the tool by its full tag,
\* "show trend from 20240101 to 20240107 for 8950XR-P3".
C16_TrendPlan ==
  /\ (TrendQuery /\ loop_count >= 1 =>
        /\ IsTrendPlan(dispatched \o action_queue, ResolvedTool,
                       IsoOf(user_query.range[1]), IsoOf(user_query.range[3]))
        /\ (pc = "END" => action_queue = <<>>)
        /\ llm_calls = 0)
  /\ (user_query = Text({"trend"}, <<"8950XR-P3">>, <<Jan01, "to", Jan07>>)
        /\ loop_count >= 1 =>
        IsTrendPlan(dispatched \o action_queue, "8950XR-P3", IsoOf(Jan01), IsoOf(Jan07)))

\* C16 witness: the trend question for 8950XR-P3 ran fetch, chart and finish.
C16_Witness ==
  /\ pc = "END" /\ TrendQuery
  /\ Len(dispatched) = 3 /\ dispatched[1].tool = "8950XR-P3"
  /\ dispatched[1].date_to = <<"2","0","2","4","-","0","1","-","0","7">>

DocumentationQuery == is_rag(user_query) /\ ~is_health(user_query) /\ ~TrendMatches

\* C17: for a documentation query that no earlier planner rule matches, the actions
\* dispatched are exactly document-search then finish, and the decision service is
\* never called in that invocation.
C17_RagPlan ==
  DocumentationQuery /\ loop_count >= 1 =>
    /\ PlanInProgress = << <<"rag_qa", "rag_manual", Absent>>, <<"finish", "finish", Absent>> >>
    /\ (pc = "END" => action_queue = <<>> /\ Len(dispatched) = 2)
    /\ llm_calls = 0
    /\ last_response = NoResponse

\* C17 witness: a how-to question ended after the search result and the finish.
C17_Witness ==
  /\ pc = "END" /\ DocumentationQuery
  /\ Len(step_results) = 1 /\ step_results[1].step_type = "rag_qa"
  /\ final_answer # Absent

AdHocSuccesses(results) ==
  {i \in 1..Len(results) : results[i].step_id = "ad_hoc_sql" /\ results[i].error = Absent}

\* C18: once the ad-hoc SQL action has one error-free result, no later activation
\* of the invocation emits it again; the next activation with an empty queue emits
\* finish without planner or decision service, so there is never a second success.
C18_AdHocOnce ==
  [][ /\ (pc = "supervisor" /\ AdHocSuccesses(step_results) # {} =>
            /\ next_action'.id # "ad_hoc_sql"
            /\ (action_queue = <<>> =>
                  /\ next_action'.action_type = "finish"
                  /\ pc' = "aggregator"
                  /\ planner_calls' = planner_calls
                  /\ llm_calls' = llm_calls))
      /\ Cardinality(AdHocSuccesses(step_results')) <= 1
    ]_vars

\* C18 witness: the ad-hoc query failed twice, succeeded the third time, and the
\* invocation then ended on the finish that follows the success.
C18_Witness ==
  /\ pc = "END" /\ Len(step_results) = 3
  /\ step_results[1].step_id = "ad_hoc_sql" /\ step_results[1].error # Absent
  /\ AdHocSuccesses(step_results) = {3}
  /\ next_action.description = <<"Summarize existing SQL result.">>

\* the id and the question an ask_user action carries, with the defaults the
\* orchestrator uses for a field the action lacks
AskedId(action) == IF action.id = Absent THEN "clarify" ELSE action.id

AskedQuestion(action) ==
  IF action.clarification_question = Absent
  THEN "Please provide more detail." ELSE action.clarification_question

\* C19: whenever the orchestrator chooses ask_user, from the planner or from the
\* decision service, pending_clarification takes that action's id and question and
\* the invocation goes to the ask_user stop and ends, so no capability step is
\* dispatched after it; for every other chosen action pending_clarification is
\* cleared, and no other node writes it.
C19_AskUserStops ==
  [][ /\ (pc = "supervisor" /\ next_action'.action_type = "ask_user" =>
            /\ pending_clarification' =
                 [id |-> AskedId(next_action'), question |-> AskedQuestion(next_action')]
            /\ pc' = "ask_user")
      /\ (pc = "supervisor" /\ next_action'.action_type # "ask_user" =>
            pending_clarification' = NoClarification /\ pc' # "ask_user")
      /\ (pc = "ask_user" => pc' = "END" /\ dispatched' = dispatched)
      /\ (pc # "supervisor" => pending_clarification' = pending_clarification)
      /\ pc # "END"
    ]_vars

\* C19 witness: after a first step the decision service asked which recipe, and the
\* invocation ended there with that id and question pending.
C19_Witness ==
  /\ pc = "END" /\ llm_calls = 2
  /\ dispatched[Len(dispatched)].action_type = "ask_user"
  /\ pending_clarification = [id |-> "recipe", question |-> "Which recipe?"]
  /\ step_results # <<>>

FollowUpHealth ==
  /\ pc = "invoke"
  /\ last_tool # Absent
  /\ session.clarification_answers = NoAnswers
  /\ clarification_answers = NoAnswers
  /\ is_health(user_query)
  /\ TagOf(user_query) = Absent

\* C21 as stated: after a run in which the planner resolved tool T from the query
\* and set last_tool, a follow-up health query in the next run that names no tool
\* resolves to T (last_tool stays T) and ends without a pending clarification.
C21_LastToolCarried ==
  [][FollowUpHealth =>
       /\ pending_clarification' = NoClarification
       /\ last_tool' = last_tool]_vars

\* a capability node is running: between its dispatch and its return
InStep == pc \in CapabilityNodes \cup {"data_analyst_raw_llm"}

StepReturns == InStep /\ pc' = "supervisor"

\* the actions dispatched so far that went to a capability node
CapabilityDispatches ==
  Cardinality({i \in DOMAIN dispatched : route_supervisor(dispatched[i]) \in CapabilityNodes})

Cell(columns, row, name) == row[CHOOSE i \in DOMAIN columns : columns[i] = name]

\* the calibrations of the tool hold an overdue row of the subsystem
HasOverdue(subsystem) ==
  \E i \in DOMAIN calibrations :
    /\ Cell(CalColumns, calibrations[i], "is_overdue") = "1"
    /\ Cell(CalColumns, calibrations[i], "subsystem") = subsystem

\* the wafer-centre ratio of this week exceeds 0.05 on some recipe
RatioExceeded ==
  \E i \in DOMAIN wc_points :
    Ratios[Cell(WcColumns, wc_points[i], "wc_abnormal_ratio")] > WC_RATIO_LIMIT

ShouldBeUnhealthy(subsystem) ==
  HasOverdue(subsystem) \/ (subsystem = "Stage" /\ RatioExceeded)

\* the interpretation step is about to run in subsystem mode on two queries that
\* both succeeded
SubsystemStep ==
  /\ pc = "domain_expert"
  /\ subsystem_mode
  /\ Len(step_results) = 2
  /\ \A i \in 1..2 : step_results[i].error = Absent

MarkedUnhealthy(content, subsystem) ==
  /\ subsystem \in DOMAIN content.rows_out
  /\ content.rows_out[subsystem].status = "Unhealthy"

HasOverdueNote(content, subsystem) ==
  /\ subsystem \in DOMAIN content.rows_out
  /\ \E n \in DOMAIN content.rows_out[subsystem].notes :
       content.rows_out[subsystem].notes[n].note = "Overdue"

DriftDone == pc = "drift_done"

\* C24: in the weekly drift computation the anomaly flag of a (tool, recipe) row is
\* set exactly if last_sum > 0 and |this_sum - last_sum| / last_sum > 0.10; a
\* change of exactly 10 % is not anomalous; with last_sum = 0 the ratio is NULL and
\* the flag is not set.
C24_AnomalyFlag ==
  DriftDone =>
    \A g \in DOMAIN drift_rows.calc :
      LET row == drift_rows.calc[g]
          change == Abs(weekly[g].this_sum - weekly[g].last_sum)
      IN /\ row.this_sum = weekly[g].this_sum /\ row.last_sum = weekly[g].last_sum
         /\ row.is_anom \in {0, 1}
         /\ row.is_anom = 1 <=> (row.last_sum > 0 /\ 10 * change > row.last_sum)
         /\ (row.last_sum > 0 /\ 10 * change = row.last_sum) => row.is_anom = 0
         /\ row.last_sum = 0 => (row.diff_pct = <<>> /\ row.is_anom = 0)
         /\ row.last_sum > 0 => row.diff_pct = <<Round4(change, row.last_sum)>>

\* C24 witness: one result holds a row changed by exactly 10 % that is not flagged,
\* a row changed by 20 % that is flagged, and a row without baseline whose ratio is
\* NULL.
C24_Witness ==
  /\ DriftDone
  /\ \E a, b, c \in DOMAIN drift_rows.calc :
       /\ drift_rows.calc[a].this_sum = 11 /\ drift_rows.calc[a].last_sum = 10
       /\ drift_rows.calc[a].is_anom = 0 /\ drift_rows.calc[a].diff_pct = <<1000>>
       /\ drift_rows.calc[b].this_sum = 12 /\ drift_rows.calc[b].last_sum = 10
       /\ drift_rows.calc[b].is_anom = 1
       /\ drift_rows.calc[c].this_sum = 9 /\ drift_rows.calc[c].last_sum = 0
       /\ drift_rows.calc[c].is_anom = 0 /\ drift_rows.calc[c].diff_pct = <<>>

\* a (tool, recipe) pair of weekly whose sums differ by more than 10 % of a
\* positive last_sum
Anomalous(g) ==
  /\ weekly[g].present
  /\ weekly[g].last_sum > 0
  /\ 10 * Abs(weekly[g].this_sum - weekly[g].last_sum) > weekly[g].last_sum

\* the tools that are anomalous on a recipe
AnomalousTools(recipe) == {t \in DriftTools : Anomalous(<<t, recipe>>)}

\* every pair with rows has exactly one labelled row
OneLabelEach == DOMAIN drift_rows.labeled = GroupsOf(weekly)

\* C25 as stated: every (tool, recipe) row gets exactly one label: TOOL_DRIFT if it
\* is anomalous and exactly one tool is anomalous on the recipe, PROCESS_DRIFT if it
\* is anomalous and more than one tool is, STABLE if it is not anomalous.
C25_ThreeLabels ==
  DriftDone =>
    /\ OneLabelEach
    /\ \A g \in DOMAIN drift_rows.labeled :
         drift_rows.labeled[g].drift_label =
           IF ~Anomalous(g) THEN "STABLE"
           ELSE IF Cardinality(AnomalousTools(g[2])) = 1 THEN "TOOL_DRIFT"
           ELSE "PROCESS_DRIFT"

\* C25 amended: every (tool, recipe) row gets exactly one label: UNKNOWN_BASELINE if
\* last_sum is 0; otherwise STABLE if it is not anomalous, TOOL_DRIFT if it is
\* anomalous and the only anomalous tool on the recipe, PROCESS_DRIFT if it is
\* anomalous and more than one tool is anomalous on the recipe.
C25_DriftLabels ==
  DriftDone =>
    /\ OneLabelEach
    /\ \A g \in DOMAIN drift_rows.labeled :
         /\ drift_rows.labeled[g].k_anom = Cardinality(AnomalousTools(g[2]))
         /\ drift_rows.labeled[g].drift_label =
              IF weekly[g].last_sum = 0 THEN "UNKNOWN_BASELINE"
              ELSE IF ~Anomalous(g) THEN "STABLE"
              ELSE IF Cardinality(AnomalousTools(g[2])) = 1 THEN "TOOL_DRIFT"
              ELSE "PROCESS_DRIFT"

\* C25 witness: both tools are anomalous on R1 (PROCESS_DRIFT twice), only
\* 8950XR-P1 is anomalous on R2 (TOOL_DRIFT) and 8950XR-P2 has no baseline there.
C25_Witness ==
  /\ DriftDone
  /\ DOMAIN drift_rows.labeled = DriftTools \X Range(Recipes)
  /\ drift_rows.labeled[<<"8950XR-P1", "R1">>].drift_label = "PROCESS_DRIFT"
  /\ drift_rows.labeled[<<"8950XR-P2", "R1">>].drift_label = "PROCESS_DRIFT"
  /\ drift_rows.labeled[<<"8950XR-P1", "R2">>].drift_label = "TOOL_DRIFT"
  /\ drift_rows.labeled[<<"8950XR-P2", "R2">>].drift_label = "UNKNOWN_BASELINE"

\* a query step is running on a deterministic template
QueryStep == pc = "data_analyst" /\ IsTemplate(next_action)

\* the result the step has just appended
Appended == step_results'[Len(step_results')]

\* the step succeeded: the result it appended has no error
QuerySucceeded == QueryStep /\ Appended.error = Absent

\* the result of the query the step ran, cut at the row limit
Queried == ensure_limit(TemplateResult(next_action.id), MAX_SQL_ROWS)

\* the preview: the first rows of the result, at most PREVIEW_ROWS of them
IsPreview(rows) ==
  /\ Len(rows) = Min(PREVIEW_ROWS, Len(Queried))
  /\ \A i \in DOMAIN rows : rows[i] = Zip(TemplateColumns(next_action.id), Queried[i])

\* C26 as stated: a successful SQL step carries the full row set exactly if the row
\* count is below 50; at or above 50 it carries only the preview of at most 5 rows.
C26_RowsBelowCap ==
  [][QuerySucceeded =>
       /\ "rows" \in DOMAIN Appended <=> Len(Queried) < ROWS_CAP
       /\ IsPreview(Appended.preview_rows)]_vars

\* C26 amended: a successful SQL step carries the full row set exactly if the row
\* count is at most 50 (the cap included); above 50 it carries only the preview,
\* the first rows of the result, at most 5.  The rows carried are those read back
\* from the result file, one per row of the result.
C26_RowsUpToCap ==
  [][QuerySucceeded =>
       /\ "rows" \in DOMAIN Appended <=> Len(Queried) <= ROWS_CAP
       /\ "rows" \in DOMAIN Appended =>
            /\ Len(Appended.rows) = Len(Queried)
            /\ \A i \in DOMAIN Queried :
                 Appended.rows[i] =
                   Zip(TemplateColumns(next_action.id),
                       [j \in DOMAIN Queried[i] |-> PandasValue(CsvField(Queried[i][j]))])
       /\ IsPreview(Appended.preview_rows)]_vars

\* C26 witness: a calibration result of exactly 50 rows is carried in full next to
\* its 5-row preview.
C26_Witness ==
  /\ Len(calibrations) = ROWS_CAP
  /\ Len(step_results) >= 1
  /\ step_results[1].step_id = "calibration_overdue"
  /\ "rows" \in DOMAIN step_results[1]
  /\ Len(step_results[1].rows) = ROWS_CAP
  /\ Len(step_results[1].preview_rows) = PREVIEW_ROWS

\* a query step has just registered its result: it appended a SQL result without error
QueryRegistered ==
  /\ pc = "data_analyst"
  /\ Len(step_results') = Len(step_results) + 1
  /\ Appended.step_type = "sql_analysis"
  /\ Appended.error = Absent

\* the dataset ids a step has added
NewIds == DOMAIN data_artifacts' \ DOMAIN data_artifacts

\* C27: dataset artifacts are write-once.  Every successful query step adds exactly
\* one entry to data_artifacts, under an id that was not registered before (the id
\* its step result names), and no step changes or removes a registered entry; a
\* step that is not a successful query adds nothing.
C27_WriteOnce ==
  [][/\ \A id \in DOMAIN data_artifacts :
          id \in DOMAIN data_artifacts' /\ data_artifacts'[id] = data_artifacts[id]
     /\ IF QueryRegistered
        THEN NewIds = {Appended.dataset_id}
        ELSE NewIds = {}]_vars

\* C27 witness: two datasets are registered and a later step of another kind has
\* run over them.
C27_Witness ==
  /\ Cardinality(DOMAIN data_artifacts) >= 2
  /\ Len(step_results) >= 3
  /\ step_results[Len(step_results)].step_type # "sql_analysis"

\* the lines of the file at a registered location
FileOf(artifact) == runtime_cache[artifact.csv_path]

\* C28: round trip between a registered dataset artifact and its file.  For every
\* entry of data_artifacts the file at csv_path exists, its first line is the
\* declared columns list, and the number of lines after it is the declared
\* row_count.
C28_RoundTrip ==
  \A id \in DOMAIN data_artifacts :
    LET artifact == data_artifacts[id]
    IN /\ artifact.csv_path \in DOMAIN runtime_cache
       /\ Len(FileOf(artifact)) >= 1
       /\ FileOf(artifact)[1] = artifact.columns
       /\ Len(FileOf(artifact)) - 1 = artifact.row_count

\* C28 witness: two datasets are registered, one of them with more rows than the
\* preview holds and the other with a different header.
C28_Witness ==
  \E id, other \in DOMAIN data_artifacts :
    /\ data_artifacts[id].row_count > PREVIEW_ROWS
    /\ data_artifacts[id].columns = CalColumns
    /\ data_artifacts[other].columns = WcColumns
    /\ data_artifacts[other].row_count > 0

\* no database file exists at the path
MissingDatabase == ~db_file.exists

\* the tables the question's own keywords name
KeywordTables == {TABLE_KEYWORDS[kw] : kw \in (DOMAIN TABLE_KEYWORDS) \cap user_query.kws}

\* C29: loading the schema from a path where no database file exists does not
\* raise and returns a schema with no tables.  The planner then reads a schema
\* without tables: it names no table from the schema, and an ad-hoc lookup is
\* planned only over tables that the question's keywords name.
C29_MissingDatabase ==
  [][MissingDatabase =>
       /\ pc' # "raised"
       /\ pc = "load_database_schema" =>
            pc' = "load_markdown_knowledge" /\ database_schema' = {}
       /\ pc # "load_database_schema" => database_schema = {}
       /\ pc = "supervisor" =>
            /\ _infer_tables(user_query, database_schema) = KeywordTables
            /\ KeywordTables # {}
            /\ next_action'.tables = KeywordTables]_vars

\* C29 witness: the context is loaded from a missing database file, the schema has
\* no tables, and a data question without table keywords finds no table to name.
C29_Witness ==
  /\ MissingDatabase
  /\ pc = "supervisor"
  /\ database_schema = {}
  /\ is_dataish(user_query)
  /\ _infer_tables(user_query, database_schema) = {}

\* the file name ends in .md
IsMarkdown(name) == name \in {"a.md", "b.md"}

\* the directory holds no markdown file
NoMarkdownFiles == \A f \in docs_files : ~IsMarkdown(f.name)

\* C30: loading the markdown knowledge from a directory without markdown files
\* returns the empty knowledge text and an empty table index, whatever other files
\* the directory holds.
C30_NoMarkdown ==
  [][pc = "load_markdown_knowledge" /\ NoMarkdownFiles =>
       /\ markdown_knowledge' = EmptyString
       /\ DOMAIN table_markdown_index' = {}
       /\ pc' = "supervisor"]_vars

\* C30 witness: the knowledge is loaded from a directory whose only file is not a
\* markdown file although it has table headings, and it is empty.
C30_Witness ==
  /\ pc = "supervisor"
  /\ NoMarkdownFiles
  /\ \E f \in docs_files : \E i \in DOMAIN f.text : heading_pat(f.text[i]) # Absent
  /\ markdown_knowledge = EmptyString
  /\ DOMAIN table_markdown_index = {}

\* a template action is pending at the SQL step
TemplateStep == pc = "data_analyst" /\ IsTemplate(next_action)

\* a query built from one of the four templates
FromTemplate(sql) == sql.template \in Templates

\* C31: every query built from a deterministic template is executed with a tool
\* value that is one of the four tags 8950XR-P1..P4 and, for the trend template,
\* with both dates of the form NNNN-NN-NN.  A template action whose tool value
\* gives no tag (missing, or anything else than a tag, the decision service's
\* proposals included) executes no query and appends one result with the tool
\* error; a template action that passes both tests executes exactly one query,
\* built from its own template.
C31_TemplateInputs ==
  [][/\ \A i \in DOMAIN executed' :
          FromTemplate(executed'[i]) =>
            /\ executed'[i].tool \in ToolTags
            /\ executed'[i].template = "defect_trend_range" =>
                 IsIsoDate(executed'[i].date_from) /\ IsIsoDate(executed'[i].date_to)
     /\ TemplateStep /\ _sanitize_tool(next_action.tool) = Absent =>
          /\ executed' = executed
          /\ Len(step_results') = Len(step_results) + 1
          /\ Appended.error = "Tool must be one of: 8950XR-P1/P2/P3/P4"
     /\ TemplateStep /\ ~InputFailure =>
          /\ Len(executed') = Len(executed) + 1
          /\ executed'[Len(executed')].template = next_action.id]_vars

\* C31 witness: the decision service proposed a template with the tool written in
\* lower case, which ran with the tag 8950XR-P2, and a template with a tool that
\* is no tag, which ran no query and left the tool error.
C31_Witness ==
  /\ \E i \in DOMAIN dispatched : dispatched[i].tool = "8950xr-p2"
  /\ \E i \in DOMAIN executed :
       executed[i] = Sql("calibration_overdue", "8950XR-P2", <<>>, <<>>)
  /\ \E i \in DOMAIN step_results :
       /\ step_results[i].step_id = "defect_drift_weekly"
       /\ step_results[i].error = "Tool must be one of: 8950XR-P1/P2/P3/P4"
  /\ \A i \in DOMAIN executed : executed[i].template # "defect_drift_weekly"

\* the action types the router dispatches to a capability step or to ask_user
Dispatchable ==
  {"sql_analysis", "python_analysis", "domain_explain", "rag_qa", "visualize", "ask_user"}

\* the decision service has just been consulted
Consulted == llm_calls' = llm_calls + 1

\* final-answer synthesis is about to run on an action that is neither dispatchable
\* nor finish
UnknownPending ==
  pc = "aggregator" /\ next_action.action_type \notin Dispatchable \cup {"finish"}

NoDataset ==
  \/ DOMAIN data_artifacts = {}
  \/ /\ next_action.target_dataset_id # <<>>
     /\ next_action.target_dataset_id \notin DOMAIN data_artifacts

\* the planner's trend plan is running and its fetch-range step has failed
TrendFetchFailed ==
  /\ llm_calls = 0
  /\ Len(dispatched) >= 1
  /\ dispatched[1].id = "defect_trend_range"
  /\ Len(step_results) >= 1
  /\ step_results[1].error # Absent

VisualizeError(step) ==
  step.step_type = "visualize" /\ step.error = "No dataset available for visualization."

\* C33: a visualization action dispatched when no dataset is resolvable appends one
\* result with the error field, clears the pending action, registers nothing and
\* returns to the orchestrator without raising.  In the trend plan a failed
\* fetch-range step is followed by the visualize step, which ends in that error,
\* and then by finish, and the invocation ends with these two results.
C33_VisualizeWithoutDataset ==
  /\ [][/\ pc = "visualizer" /\ NoDataset =>
             /\ Len(step_results') = Len(step_results) + 1
             /\ VisualizeError(Appended)
             /\ next_action' = None
             /\ pc' = "supervisor"
             /\ data_artifacts' = data_artifacts
        /\ TrendFetchFailed =>
             /\ Len(dispatched') <= 3 /\ Len(step_results') <= 2
             /\ Len(dispatched') >= 2 => dispatched'[2].action_type = "visualize"
             /\ Len(step_results') >= 2 => VisualizeError(step_results'[2])
             /\ Len(dispatched') >= 3 => dispatched'[3].action_type = "finish"]_vars
  /\ (TrendFetchFailed ~> (pc = "END" /\ Len(step_results) = 2 /\ Len(dispatched) = 3))

\* C33 witness: the decision service asked for a chart of a dataset id that is not
\* registered while another dataset is, and the step ended in the error.
C33_Witness ==
  /\ DOMAIN data_artifacts = {DatasetId(1)}
  /\ Len(step_results) = 2
  /\ VisualizeError(step_results[2])
  /\ dispatched[Len(dispatched)].target_dataset_id = DatasetId(2)
  /\ next_action = None
  /\ pc = "supervisor"

\* the recipes on which the tool alone is anomalous: its TOOL_DRIFT recipes
ToolDriftRecipes(tool) ==
  {r \in Range(Recipes) : Anomalous(<<tool, r>>) /\ AnomalousTools(r) = {tool}}

\* C34: in the weekly-drift result a tool is reported UNHEALTHY exactly if at least
\* one of its recipes is labelled TOOL_DRIFT, and HEALTHY otherwise.  A tool none of
\* whose recipes changes by more than 10 % week over week is reported HEALTHY, and
\* so is a tool whose anomalous recipes are all PROCESS_DRIFT.  The result has one
\* row per recipe of the tool, each carrying the tool's status.
C34_ToolHealth ==
  DriftDone =>
    /\ Len(drift_rows.result) =
         Cardinality({g \in GroupsOf(weekly) : g[1] = drift_rows.tool})
    /\ \A i \in DOMAIN drift_rows.result :
         LET row == drift_rows.result[i]
             labels == {drift_rows.labeled[g].drift_label :
                          g \in {h \in DOMAIN drift_rows.labeled : h[1] = row.tool}}
         IN /\ row.tool = drift_rows.tool
            /\ row.tool_health \in {"UNHEALTHY", "HEALTHY"}
            /\ row.tool_health = "UNHEALTHY" <=> "TOOL_DRIFT" \in labels
            /\ row.tool_health = "UNHEALTHY" <=> ToolDriftRecipes(row.tool) # {}
            /\ row.tool_drift_recipe_count = Cardinality(ToolDriftRecipes(row.tool))
            /\ (\A r \in Range(Recipes) : ~Anomalous(<<row.tool, r>>)) =>
                 row.tool_health = "HEALTHY"

\* C34 witness: the tool drifts on one recipe together with the other tool
\* (PROCESS_DRIFT), is stable on the other recipe, and is reported HEALTHY.
C34_Witness ==
  /\ DriftDone
  /\ Len(drift_rows.result) = 2
  /\ drift_rows.result[1].drift_label = "PROCESS_DRIFT"
  /\ drift_rows.result[2].drift_label = "STABLE"
  /\ drift_rows.result[1].tool_health = "HEALTHY"

\* ------------------------------------- the subsystem formatter and drift
\* the subsystem formatter applied to step results with and without a result of
\* the weekly drift query

\* one query of a template as the data step records it: the step result, the
\* artifact and the file, under dataset id n
Ran(action, table, columns, outcome, n) ==
  LET summary == execute_sqlite_query(table, columns, outcome, DatasetId(n))
      cache == IF outcome = "ok" THEN (summary.csv_path :> summary.written) ELSE <<>>
  IN [step |-> SqlRowsResult(action, TemplateReasoning(action.id), summary, cache),
      cache |-> cache,
      artifacts |-> IF outcome = "ok"
                    THEN (summary.dataset_id :> DatasetArtifact(summary)) ELSE <<>>]

ExpertCalTables ==
  {CalTable(overdue, padding) :
     overdue \in UNION {[1..k -> DataSubsystems] : k \in 0..2}, padding \in Paddings}

\* no calibration step, a failed one, or one per table
CalRuns ==
  {<<>>, <<Ran(SubsystemPlan("8950XR-P2")[1], <<>>, CalColumns, "error", 1)>>}
    \cup {<<Ran(SubsystemPlan("8950XR-P2")[1], t, CalColumns, "ok", 1)>> :
            t \in ExpertCalTables}

WcRuns ==
  {<<>>, <<Ran(SubsystemPlan("8950XR-P2")[2], <<>>, WcColumns, "error", 2)>>}
    \cup {<<Ran(SubsystemPlan("8950XR-P2")[2], t, WcColumns, "ok", 2)>> : t \in WcTables}

\* a week in which only 8950XR-P2 rises on R1, and a week without any rise
DriftWeeks ==
  { [g \in DriftTools \X Range(Recipes) |->
       IF g = <<"8950XR-P2", "R1">> THEN Group(TRUE, 12, 10) ELSE Group(TRUE, 9, 10)],
    [g \in DriftTools \X Range(Recipes) |-> Group(TRUE, 9, 10)] }

DriftAction ==
  SqlAction("defect_drift_weekly", <<"Compute weekly defect drift for the tool.">>,
            {"defects_daily"}, "8950XR-P2")

\* the step result of the weekly drift query: its rows, or its error
DriftStep(rows, outcome) ==
  LET base == [StepResult("defect_drift_weekly", "sql_analysis",
                          TemplateReasoning("defect_drift_weekly"))
                 EXCEPT !.used_tables = {"defects_daily"}]
  IN IF outcome = "ok"
     THEN WithRows([base EXCEPT !.dataset_id = DatasetId(3), !.has_rows = TRUE],
                   SubSeq(rows, 1, Min(PREVIEW_ROWS, Len(rows))), <<rows>>)
     ELSE [base EXCEPT !.error = "sql error", !.reasoning = "SQL attempted"]

DriftSteps ==
  {DriftStep(<<>>, "error")}
    \cup {DriftStep(_sql_defect_drift_weekly(w, "8950XR-P2").result, "ok") : w \in DriftWeeks}

IsDrift(step) == step.step_id = "defect_drift_weekly"

\* findings with step put in before position i
Inserted(findings, step, i) ==
  SubSeq(findings, 1, i - 1) \o <<step>> \o SubSeq(findings, i, Len(findings))

RECURSIVE WithoutDrift(_)
WithoutDrift(findings) ==
  IF findings = <<>> THEN <<>>
  ELSE (IF IsDrift(Head(findings)) THEN <<>> ELSE <<Head(findings)>>)
       \o WithoutDrift(Tail(findings))

\* the step results that agree with findings on everything but a result of the
\* drift query: none, or any one of them at any place
DriftTwins(findings) ==
  LET rest == WithoutDrift(findings)
  IN {rest} \cup {Inserted(rest, d, i) : d \in DriftSteps, i \in 1..(Len(rest) + 1)}

\* the interpretation step about to run in subsystem mode, after any of the
\* queries
ExpertInit ==
  /\ pc = "domain_expert"
  /\ subsystem_mode = TRUE
  /\ user_query = SubsystemQuery
  /\ clarification_answers = NoAnswers
  /\ last_tool = "8950XR-P2"
  /\ chat_history = <<>>
  /\ database_schema = AllTables
  /\ next_action = SubsystemPlan("8950XR-P2")[3]
  /\ action_queue = <<SubsystemPlan("8950XR-P2")[4]>>
  /\ \E cal \in CalRuns, wc \in WcRuns :
       LET ran == cal \o wc
           steps == [i \in DOMAIN ran |-> ran[i].step]
       IN /\ step_results \in DriftTwins(steps)
          /\ runtime_cache =
               (IF cal = <<>> THEN <<>> ELSE cal[1].cache)
                 @@ (IF wc = <<>> THEN <<>> ELSE wc[1].cache)
          /\ data_artifacts =
               (IF cal = <<>> THEN <<>> ELSE cal[1].artifacts)
                 @@ (IF wc = <<>> THEN <<>> ELSE wc[1].artifacts)
  /\ pending_clarification = NoClarification
  /\ final_answer = Absent
  /\ loop_count = 3
  /\ llm_calls = 0
  /\ planner_calls = 1
  /\ last_response = NoResponse
  /\ uuid_count = 3
  /\ executed = <<>>
  /\ expert_payload = NoPayload
  /\ dispatched = <<SubsystemPlan("8950XR-P2")[3]>>
  /\ resolved = Absent
  /\ session = NewSession
  /\ calibrations = <<>>
  /\ wc_points = <<>>
  /\ weekly = <<>>
  /\ drift_rows = <<>>
  /\ db_file = DbFile(TRUE, TRUE, AllTables)
  /\ docs_files = {}
  /\ markdown_knowledge = EmptyString
  /\ table_markdown_index = <<>>

ExpertNext == DomainExpertSubsystemRows

ExpertSpec == ExpertInit /\ [][ExpertNext]_vars

\* the per-subsystem statuses and the overall verdict of an answer
Verdict(content) ==
  [status_text |-> content.status_text,
   statuses |-> [s \in DOMAIN content.rows_out |-> content.rows_out[s].status]]

\* the subsystem formatter has answered
SubsystemAnswered ==
  /\ pc = AfterStep
  /\ step_results # <<>>
  /\ step_results[Len(step_results)].step_type = "domain_explain"

\* C35: in subsystem mode the per-subsystem statuses and the overall verdict are
\* the same for all step results that agree on the calibration and wafer-centre
\* results and differ only in whether, where and with what content a result of
\* the weekly drift query is present.
C35_DriftIndependent ==
  SubsystemAnswered =>
    \A twin \in DriftTwins(SubSeq(step_results, 1, Len(step_results) - 1)) :
      Verdict(SubsystemAnswer(twin)) = Verdict(step_results[Len(step_results)].summary)

\* C35 witness: the formatter has answered Healthy although the step results hold
\* a drift result that reports the tool unhealthy
C35_Witness ==
  /\ SubsystemAnswered
  /\ step_results[Len(step_results)].summary.status_text = "Healthy"
  /\ \E i \in DOMAIN step_results :
       /\ IsDrift(step_results[i])
       /\ \E j \in DOMAIN _rows(step_results[i]) :
            _rows(step_results[i])[j].tool_health = "UNHEALTHY"

\* the last turn answered the tool clarification and its run is over
ToolAnswered == pc = "input" /\ session.answering = "tool"

\* the tool clarification is pending for the next prompt
ToolAsked ==
  /\ session.pending_clarification # NoClarification
  /\ session.pending_clarification.id = "tool"

\* the answer stored for the tool clarification holds a valid tag
ToolStored(answers) == "tool" \in DOMAIN answers /\ TagOf(answers["tool"]) # Absent

\* the last turn ran a health question that names no tool
HealthWithoutMention ==
  pc = "input" /\ session.turn > 0 /\ is_health(user_query) /\ TagOf(user_query) = Absent

QueueEmitted == action_queue = <<>> /\ action_queue' # <<>>

\* finish occurs in the queue once, as its last element
FinishLastOnly(queue) ==
  \A i \in DOMAIN queue : queue[i].action_type = "finish" <=> i = Len(queue)

\* C37: every queue the planner emits holds finish exactly once, as its last
\* element; and from the moment a queue is stored the planner has been consulted
\* exactly once and the decision service never, for the rest of the invocation: at
\* most one plan is emitted and nothing is consulted after a plan has started.
C37_OnePlan ==
  /\ [][QueueEmitted => FinishLastOnly(<<next_action'>> \o action_queue')]_vars
  /\ [](action_queue # <<>> => [](planner_calls = 1 /\ llm_calls = 0))

\* C37 witness: the five steps of a health plan with supporting evidence were
\* dispatched, the last being its finish, and the invocation is over
C37_Witness ==
  /\ Terminated
  /\ action_queue = <<>>
  /\ Len(dispatched) = 5
  /\ dispatched[1].id = "defect_drift_weekly"
  /\ dispatched[5] = FinishAction("Summarize and return final answer.")
  /\ planner_calls = 1
  /\ llm_calls = 0

\* the graph nodes started so far: every orchestrator activation and the node each
\* of them routed to
NodesStarted == loop_count + Len(dispatched)

\* 21 orchestrator activations, 20 steps and the final node
MostNodes == (LOOP_BOUND + 1) + LOOP_BOUND + 1

\* C38: in any invocation at most 20 capability steps are dispatched, step_results
\* never holds more than 20 entries, and at most 42 graph nodes run (at most 21
\* orchestrator activations, 20 steps and one final node), which stays below the
\* recursion limit of 60 the graph is invoked with.
C38_StepBudget ==
  /\ CapabilityDispatches <= LOOP_BOUND
  /\ Len(step_results) <= LOOP_BOUND
  /\ loop_count <= LOOP_BOUND + 1
  /\ NodesStarted <= MostNodes
  /\ MostNodes = 42
  /\ MostNodes < RECURSION_LIMIT

\* C38 witness: an invocation that used the whole budget: 21 activations, 20
\* capability steps with 20 step results, and the final synthesis
C38_Witness ==
  /\ pc = "END"
  /\ loop_count = LOOP_BOUND + 1
  /\ CapabilityDispatches = LOOP_BOUND
  /\ Len(step_results) = LOOP_BOUND
  /\ NodesStarted = MostNodes
  /\ final_answer # Absent

\* the planner routed the query to the ad-hoc lookup
AdHocRouted == dispatched # <<>> /\ dispatched[1].id = "ad_hoc_sql"

\* the orchestrator is activated right after an ad-hoc step that ended in an error
AfterAdHocError ==
  /\ pc = "supervisor"
  /\ AdHocRouted
  /\ step_results # <<>>
  /\ step_results[Len(step_results)].step_id = "ad_hoc_sql"
  /\ step_results[Len(step_results)].error # Absent

AdHocDispatches ==
  Cardinality({i \in DOMAIN dispatched : dispatched[i].id = "ad_hoc_sql"})

\* every ad-hoc attempt of the invocation failed
AllFailed == \A i \in DOMAIN step_results : step_results[i].error # Absent

\* C39: after an ad-hoc step that ended in an error the next activation emits the
\* ad-hoc action again, without the decision service and without a finish, as long
\* as the loop guard does not fire; an invocation in which every attempt failed
\* has dispatched the ad-hoc action exactly 20 times and ended by the forced
\* finish.
C39_AdHocRetry ==
  /\ [][(AfterAdHocError /\ ~LoopGuard(loop_count + 1)) =>
          /\ next_action' = dispatched[1]
          /\ pc' = "data_analyst"
          /\ llm_calls' = llm_calls
          /\ final_answer' = Absent]_vars
  /\ []((Terminated /\ AdHocRouted /\ AllFailed) =>
          /\ AdHocDispatches = LOOP_BOUND
          /\ Len(step_results) = LOOP_BOUND
          /\ Len(dispatched) = LOOP_BOUND + 1
          /\ dispatched[LOOP_BOUND + 1].id = "auto_finish"
          /\ pc = "END")

\* C39 witness: twenty failed ad-hoc attempts, then the forced finish and the end
C39_Witness ==
  /\ pc = "END"
  /\ AdHocRouted
  /\ AllFailed
  /\ AdHocDispatches = LOOP_BOUND
  /\ next_action.id = "auto_finish"

\* -------------------------------------------------- the planner's rules
\* the first activation of an invocation on questions that mix the intents

PlannerKeywords == {"health", "trend", "how to", "defect", "subsystem", "why"}

PlannerRange ==
  << <<"2","0","2","4","0","1","0","1">>, "to", <<"2","0","2","4","0","1","0","7">> >>

PlannerQueries ==
  {Text(kws, tools, range) :
     kws \in SUBSET PlannerKeywords, tools \in {<<>>, <<"8950XR-P3">>},
     range \in {<<>>, PlannerRange}}

PlannerInit ==
  /\ pc = "supervisor"
  /\ user_query \in PlannerQueries
  /\ clarification_answers = NoAnswers
  /\ last_tool = Absent
  /\ chat_history = <<>>
  /\ database_schema = AllTables
  /\ next_action = None
  /\ action_queue = <<>>
  /\ step_results = <<>>
  /\ data_artifacts = <<>>
  /\ pending_clarification = NoClarification
  /\ final_answer = Absent
  /\ loop_count = 0
  /\ subsystem_mode = FALSE
  /\ llm_calls = 0
  /\ planner_calls = 0
  /\ last_response = NoResponse
  /\ uuid_count = 0
  /\ executed = <<>>
  /\ expert_payload = NoPayload
  /\ dispatched = <<>>
  /\ resolved = Absent
  /\ session = NewSession
  /\ NoStores

\* the first activation: the planner's rules and the decision service
PlannerNext ==
  \/ SupervisorAskTool
  \/ SupervisorSubsystemPlan
  \/ SupervisorHealthPlan
  \/ SupervisorTrendPlan
  \/ SupervisorRagPlan
  \/ SupervisorAdHoc
  \/ SupervisorDecision

PlannerSpec == PlannerInit /\ [][PlannerNext]_vars

\* the queue as emitted: the new pending action followed by the stored rest
EmittedQueue == <<next_action'>> \o action_queue'

\* the plan of the health rule for the query
HealthRoute ==
  IF ResolvedTool = Absent THEN <<AskToolAction>>
  ELSE IF is_subsystem(user_query) THEN SubsystemPlan(ResolvedTool)
  ELSE HealthPlan(ResolvedTool, is_reason(user_query))

\* C40: the rules are tried in the order health, trend, documentation, ad-hoc
\* lookup, decision service, and the first that matches decides: a question with
\* health intent yields the health plan or the tool clarification whatever else
\* it contains; without health intent a trend question with a tool and a date
\* range yields the trend plan; without either a how-to question yields the
\* documentation plan; without any of these a data question yields the ad-hoc
\* action; only the rest reaches the decision service.
C40_RulePriority ==
  [][PlannerReached =>
       IF is_health(user_query)
       THEN EmittedQueue = HealthRoute /\ llm_calls' = llm_calls
       ELSE IF TrendMatches
       THEN /\ EmittedQueue = TrendPlan(ResolvedTool, _extract_date_range(user_query)[1],
                                        _extract_date_range(user_query)[2])
            /\ llm_calls' = llm_calls
       ELSE IF is_rag(user_query)
       THEN EmittedQueue = RagPlan /\ llm_calls' = llm_calls
       ELSE IF AdHocMatches
       THEN /\ next_action'.id = "ad_hoc_sql"
            /\ action_queue' = <<>>
            /\ llm_calls' = llm_calls
       ELSE llm_calls' = llm_calls + 1]_vars

\* C40 witness: a health question that names a tool and also holds a trend
\* keyword, a date range and a how-to keyword got the health plan
C40_Witness ==
  /\ loop_count = 1
  /\ is_health(user_query)
  /\ TrendMatches
  /\ is_rag(user_query)
  /\ AdHocMatches
  /\ dispatched[1].id = "defect_drift_weekly"
  /\ action_queue # <<>>
  /\ llm_calls = 0

====
